---- MODULE Spec2Model ----
(***************************************************************************)
(* Enrichment pipeline of the ai-orchestrator: OrchestratorService         *)
(* (processPost / executeOrchestrationPipeline), the repositories it       *)
(* writes through, and the agents whose verdicts steer it.  Every `await`  *)
(* on the enriched store is one atomic step of a worker; the BullMQ worker *)
(* runs up to `concurrency` executions of processPost in one process.      *)
(* The repositories are modelled by the contract their callers are written *)
(* against: findNearestCluster hands back one cluster ({id, centroid,      *)
(* memberCount}) or null, embeddings and centroids are number vectors.     *)
(* A vector is abstracted to one integer coordinate, a centroid to an      *)
(* exact fraction of integers, so that means are computed, not assumed.    *)
(***************************************************************************)
EXTENDS Integers, Sequences, FiniteSets, TLC

\* ------------------------------------------------------------------ bounds
MaxRuns == 2          \* processPost executions started by the two workers
MaxFaults == 1        \* enriched-store calls that answer with an error
MaxDerived == 1       \* derived problems ValidityCheck returns for one post
MaxSeqRuns == 1       \* executions of the single worker, free LLM answers
MaxSeqFaults == 1     \* store errors in those behaviours
MaxRetryRuns == 4     \* executions in the retry behaviours
MaxRetryFaults == 3   \* store errors in the retry behaviours
MaxFixedRuns == 2     \* executions in the behaviours with fixed LLM answers
MaxClusterRuns == 2   \* executions in the behaviours with cluster maintenance
MaxMaintOps == 2      \* ClusteringService operations in those behaviours
NumClients == 3       \* Reddit credentials of a collector
MaxPoolCalls == 2     \* executeSamplingStrategy calls started
MaxTime == 3          \* clock ticks
MaxBatchLen == 2      \* posts in one batch a collector handles
MaxIntakeBatches == 2 \* batches the stream jobs take
MaxSeqBatches == 3    \* batches the single stream job takes
MaxDedupCalls == 2    \* optimizedWorkerJob runs started
MaxJobs == 4          \* jobs ever added to the orchestrator queue
MaxRefillRuns == 4    \* handler executions in the refill behaviours
MaxQueueRuns == 3     \* handler executions in the queue-retry behaviours
MaxQueueFaults == 3   \* store errors in those behaviours
MaxInvocations == 4   \* model invocations the LLM client starts
MaxDerivedMany == 2   \* derived problems of a post that has several
MaxDerivedFaults == 1 \* store errors in the behaviours with several
MaxFinderCalls == 3   \* CategoriesRepository.findOrCreate calls started

Posts == {"p1", "p2"}
Workers == {"w1", "w2"}

\* config.orchestration.retryAttempts (RETRY_ATTEMPTS default)
retryAttempts == 3

NoPost == "none"
ParentId(p) == [post |-> p, uuid |-> 0]
IsDerived(id) == id.uuid > 0

\* ------------------------------------------------------------- raw posts
\* Content classes of a raw post, as the rule-based checks see them:
\*   short      trimmed body under 10 characters
\*   pii        title+body matches one piiPatterns regex (one occurrence)
\*   spamWords  more than 30% of the spamIndicators occur in title+body
ContentKinds ==
  { [short |-> FALSE, pii |-> FALSE, spamWords |-> FALSE],
    [short |-> TRUE,  pii |-> FALSE, spamWords |-> FALSE],
    [short |-> FALSE, pii |-> TRUE,  spamWords |-> FALSE],
    [short |-> FALSE, pii |-> FALSE, spamWords |-> TRUE] }

\* Answers of the external LLM for one post.  mode = "free": every call may
\* answer anything; mode = "fixed": the answers below are given on every call.
SpamAnswers == {"clean", "spam", "pii"}
ValidityAnswers == {"valid", "invalid", "fail", "derived"}
FixedAnswers ==
  [mode : {"fixed"}, spam : SpamAnswers, validity : ValidityAnswers,
   classification : BOOLEAN, semantic : BOOLEAN, sentiment : BOOLEAN,
   business : BOOLEAN, category : BOOLEAN]
FreeAnswers ==
  [mode |-> "free", spam |-> "clean", validity |-> "valid",
   classification |-> TRUE, semantic |-> TRUE, sentiment |-> TRUE,
   business |-> TRUE, category |-> TRUE]
OkAnswers == [FreeAnswers EXCEPT !.mode = "fixed"]
\* Fixed answers under which every stage after ValidityCheck succeeds.
StageOkAnswers ==
  {a \in FixedAnswers : /\ a.classification /\ a.semantic /\ a.sentiment
                        /\ a.business /\ a.category}
Plain == [short |-> FALSE, pii |-> FALSE, spamWords |-> FALSE]

VARIABLES
  rawPost,       \* Posts -> ContentKinds                (immutable input)
  llm,           \* Posts -> answers of the external LLM (immutable input)
  posts,         \* enriched store, table posts: id -> row
  categories,    \* table categories: set of names
  clusters,      \* table clusters: sequence of rows, index = id
  mentions,      \* table mentions: id -> number of rows with that post_id
  piiLastIndex,  \* SpamAgent.piiPatterns: the post whose match left lastIndex > 0
  nextUuid,      \* crypto.randomUUID(): next fresh value
  budget,        \* [runs, faults] still allowed
  active,        \* workers that take jobs
  topic,         \* Posts -> what the post is about     (immutable input)
  pc, job, cur, todo, res, nearest, thrown, trace, obs,
  wrote,         \* history: the execution has changed a table
  failures,      \* history: id -> number of times the catch block marked it failed
  done,          \* history: posts with an execution that returned without throwing
  assigned,      \* history: cluster id -> [n, sum] of the embeddings that
                 \*   assignCluster calls which returned success put into it
  maint,         \* history: the ClusteringService operations run so far
  now,           \* Date.now(), in ticks
  redis,         \* durable store: client index -> value of key cooldown:<i>
  clientIndex,   \* collector -> OptimizedRedditCollector.clientIndex
  clientCooldownUntil,  \* collector -> client index -> local cooldown
  reddit,        \* client index -> what Reddit answers it (immutable input)
  poolBudget,    \* executeSamplingStrategy calls still allowed
  call,          \* call -> position and locals of executeSamplingStrategy
  handed,        \* history: collector -> client indices nextClient returned
  lastFetch,     \* durable store: subreddit -> value of key last_fetch:<s>
  seenPosts,     \* durable store: the set seen_posts
  seenIds,       \* durable store: the set reddit:seen_ids
  mongo,         \* collection Post of the collector: ids stored
  intakeBudget,  \* [batches, calls] still allowed, [jobs] that take batches
  stream,        \* job -> position and locals of streamNewPosts
  dedup,         \* run -> position and locals of optimizedWorkerJob
  reported,      \* history: id -> times a dedup index called it new
  filtered,      \* history: the filterNewPosts calls that returned
  jobs,          \* BullMQ queue orchestrator: job id -> job
  refill,        \* call -> position and locals of checkAndRefillQueue
  pendingRefills,  \* checkAndRefillQueue calls made and not yet begun
  requeued,      \* history: posts enqueued while a job of theirs was in flight
  bucket,        \* requestBucket, tokenBucket: [tokens, time since lastRefill]
  waiter,        \* caller -> position and locals of callLLMWithRetry
  rateLimiter,   \* LLMClient.rateLimiter: [tokens, requests, windowStart]
  gen,           \* call -> position and locals of generateCompletion
  invocations,   \* history: the times at which llm.invoke was called
  categoryRows,  \* table categories, row by row: index = id, value = name
  finder,        \* call -> position and locals of findOrCreate
  spamCall,      \* call -> position and locals of checkSpamAndPii
  listing,       \* what /new of the subreddit holds, page by page (input)
  poller,        \* position and locals of fetchNewPostsStreamContinuous
  pollLog        \* history: the pages it requested and the batches it yielded

vars == <<rawPost, llm, topic, posts, categories, clusters, mentions, piiLastIndex,
          nextUuid, budget, active, pc, job, cur, todo, res, nearest, thrown,
          trace, obs, wrote, failures, done, assigned, maint, now, redis,
          clientIndex, clientCooldownUntil, reddit, poolBudget, call, handed,
          lastFetch, seenPosts, seenIds, mongo, intakeBudget, stream, dedup,
          reported, filtered, jobs, refill, pendingRefills, requeued,
          bucket, waiter, rateLimiter, gen, invocations,
          categoryRows, finder, spamCall, listing, poller, pollLog>>

storeVars == <<posts, categories, clusters, mentions>>
inputVars == <<rawPost, llm, active, topic>>
\* What no step of processPost changes / changes outside assignCluster.
poolVars == <<now, redis, clientIndex, clientCooldownUntil, reddit,
              poolBudget, call, handed>>
\* The collector's intake and the other services around the pipeline.
intakeVars == <<lastFetch, seenPosts, seenIds, mongo, intakeBudget, stream,
                dedup, reported, filtered>>
queueVars == <<jobs, refill, pendingRefills, requeued>>
bucketVars == <<bucket, waiter>>
clientVars == <<rateLimiter, gen, invocations>>
categoryVars == <<categoryRows, finder>>
pollVars == <<listing, poller, pollLog>>
laterVars == <<categoryVars, spamCall, pollVars>>
serviceVars == <<intakeVars, queueVars, bucketVars, clientVars, laterVars>>
sideVars == <<inputVars, maint, poolVars, serviceVars>>
otherVars == <<sideVars, assigned>>

\* ------------------------------------------------------- enriched store
NewRow ==
  [status |-> "processing", processed_at |-> FALSE, failed_at |-> FALSE,
   error_message |-> FALSE, retry_count |-> 0, flags |-> FALSE,
   is_valid |-> FALSE, classification |-> FALSE, embedding |-> FALSE,
   sentiment |-> FALSE, idea |-> FALSE, category_id |-> "none",
   cluster_id |-> 0]

Exists(rows, id) == id \in DOMAIN rows

\* PostsRepository.createFromRawPost / createDerivedProblem: upsert on id;
\* a conflict rewrites the inserted columns (status, processing_started_at).
UpsertProcessing(rows, id) ==
  IF Exists(rows, id) THEN [rows EXCEPT ![id].status = "processing"]
  ELSE rows @@ (id :> NewRow)

\* PostsRepository.updateById on an existing row: one column group.
SetCol(rows, id, col, v) == [rows EXCEPT ![id][col] = v]

\* processPost, "Mark as completed".
MarkProcessed(rows, id) ==
  [rows EXCEPT ![id].status = "processed", ![id].processed_at = TRUE]

\* processPost, catch block: "Mark as failed".
MarkFailed(rows, id) ==
  [rows EXCEPT ![id].status = "failed", ![id].failed_at = TRUE,
               ![id].error_message = TRUE]

\* Repository helpers the orchestrator calls (columns of init_db.sql).
UpdateSpamPiiFlags(rows, id) == SetCol(rows, id, "flags", TRUE)
UpdateValidityCheck(rows, id) == SetCol(rows, id, "is_valid", TRUE)
UpdateSentiment(rows, id) == SetCol(rows, id, "sentiment", TRUE)
UpdateClassification(rows, id) == SetCol(rows, id, "classification", TRUE)
UpdateSemanticAnalysis(rows, id) == SetCol(rows, id, "embedding", TRUE)
UpdateBusinessIdea(rows, id) == SetCol(rows, id, "idea", TRUE)
UpdateCategory(rows, id, c) == SetCol(rows, id, "category_id", c)
UpdateCluster(rows, id, c) == SetCol(rows, id, "cluster_id", c)

\* MentionsRepository.create: plain insert, no uniqueness on post_id.
MentionCount(m, id) == IF id \in DOMAIN m THEN m[id] ELSE 0
MentionsCreate(m, id) == (id :> MentionCount(m, id) + 1) @@ m


\* ------------------------------------------------------------- clusters
\* The direction of an embedding is abstracted to the topic of the raw post
\* the text comes from: a raw post and the problems derived from it embed
\* near each other, and so do two raw posts on one topic.
EmbeddingKey(id) == topic[id.post]

\* The coordinate of a text's embedding: every text has its own.
Base(p) == IF p = "p1" THEN 2 ELSE 8
Embedding(id) == Base(id.post) + id.uuid

\* Exact fractions num/den, num >= 0 and den > 0, in lowest terms.
RECURSIVE GCD(_, _)
GCD(a, b) == IF b = 0 THEN a ELSE GCD(b, a % b)
Rat(n, d) == [num |-> n \div GCD(n, d), den |-> d \div GCD(n, d)]
Abs(x) == IF x < 0 THEN -x ELSE x
\* |c1 - e| < |c2 - e|
Closer(c1, c2, e) ==
  Abs(c1.num - e * c1.den) * c2.den < Abs(c2.num - e * c2.den) * c1.den

\* EmbeddingsService.calculateCentroid: the arithmetic mean of the vectors
\* of the rows `ids` (a non-empty set of post ids).
RECURSIVE SumEmbeddings(_)
SumEmbeddings(ids) ==
  IF ids = {} THEN 0
  ELSE LET id == CHOOSE x \in ids : TRUE
       IN Embedding(id) + SumEmbeddings(ids \ {id})
CalculateCentroid(ids) == Rat(SumEmbeddings(ids), Cardinality(ids))

\* EmbeddingsService.updateCentroidIncremental:
\* (val * currentCount + newEmbedding) / (currentCount + 1).
UpdateCentroidIncremental(c, currentCount, e) ==
  Rat(c.num * currentCount + e * c.den, c.den * (currentCount + 1))

\* find_nearest_cluster: the nearest centroid at or above the threshold, or
\* nothing (id 0).  Centroids on one topic are above the threshold, centroids
\* on two topics are not; ORDER BY distance LIMIT 1, the older row on a tie.
Matching(cl, key) == {i \in 1..Len(cl) : cl[i].key = key}
FindNearestCluster(cl, key, e) ==
  IF Matching(cl, key) = {}
  THEN [id |-> 0, member_count |-> 0, centroid |-> Rat(0, 1)]
  ELSE LET i == CHOOSE j \in Matching(cl, key) :
                    \A k \in Matching(cl, key) :
                      \/ Closer(cl[j].centroid, cl[k].centroid, e)
                      \/ ~Closer(cl[k].centroid, cl[j].centroid, e) /\ j <= k
       IN [id |-> i, member_count |-> cl[i].member_count,
           centroid |-> cl[i].centroid]

\* ClustersRepository.create / updateCentroid.
ClustersCreate(cl, key, e) ==
  Append(cl, [key |-> key, member_count |-> 1, centroid |-> Rat(e, 1)])
UpdateCentroid(cl, id, c, newCount) ==
  [cl EXCEPT ![id].member_count = newCount, ![id].centroid = c]

\* ClustersRepository.incrementMemberCount: a select of member_count, then an
\* update to the value read plus one; two calls on the store.
IncrementMemberCount(cl, id, currentCount) ==
  [cl EXCEPT ![id].member_count = currentCount + 1]

\* --------------------------------------------------------------- agents
Choice(p, field, all) == IF llm[p].mode = "free" THEN all ELSE {llm[p][field]}

\* SpamAgent: piiPatterns.some(pattern => pattern.test(content)) with /g
\* patterns: test() starts at the pattern's lastIndex, leaves it behind the
\* match on a hit and resets it to 0 on a miss.
PiiTestOutcomes(p, li) ==
  IF ~rawPost[p].pii THEN {[hit |-> FALSE, li |-> NoPost]}
  ELSE IF li = NoPost THEN {[hit |-> TRUE, li |-> p]}
  ELSE IF li = p THEN {[hit |-> FALSE, li |-> NoPost]}
  ELSE {[hit |-> TRUE, li |-> p], [hit |-> FALSE, li |-> NoPost]}

\* checkSpamAndPii: isSpam = rule || llm, hasPii = regex || llm.
SpamVerdict(ruleSpam, regexPii, answer) ==
  [set |-> TRUE, isSpam |-> ruleSpam \/ answer \in {"spam", "both"},
   hasPii |-> regexPii \/ answer \in {"pii", "both"}]

NoSpamResult == [set |-> FALSE, isSpam |-> FALSE, hasPii |-> FALSE]
NoValidity ==
  [set |-> FALSE, hasData |-> FALSE, isProblem |-> FALSE, reason |-> "none",
   derived |-> 0]

\* ValidityAgent.checkValidity (validity.agent2).
ValidityOutcomes(p) ==
  IF rawPost[p].short
  THEN {[set |-> TRUE, hasData |-> TRUE, isProblem |-> FALSE,
         reason |-> "Content too short to be meaningful", derived |-> 0]}
  ELSE { CASE a = "valid" ->
                [set |-> TRUE, hasData |-> TRUE, isProblem |-> TRUE,
                 reason |-> "llm", derived |-> 0]
           [] a = "invalid" ->
                [set |-> TRUE, hasData |-> TRUE, isProblem |-> FALSE,
                 reason |-> "llm", derived |-> 0]
           [] a = "derived" ->
                [set |-> TRUE, hasData |-> TRUE, isProblem |-> TRUE,
                 reason |-> "llm", derived |-> MaxDerived]
           [] a = "derivedMany" ->
                [set |-> TRUE, hasData |-> TRUE, isProblem |-> TRUE,
                 reason |-> "llm", derived |-> MaxDerivedMany]
           [] OTHER ->
                [set |-> TRUE, hasData |-> FALSE, isProblem |-> FALSE,
                 reason |-> "none", derived |-> 0]
         : a \in Choice(p, "validity", ValidityAnswers) }

\* OrchestratorService.shouldStop.
shouldStopNoValidity(spam, validity) ==
  spam.set /\ (spam.isSpam \/ spam.hasPii)
shouldStopOnDataOnly(spam, validity) ==
  \/ spam.set /\ (spam.isSpam \/ spam.hasPii)
  \/ validity.set /\ validity.hasData /\ ~validity.isProblem
shouldStop(spam, validity) ==
  \/ spam.set /\ (spam.isSpam \/ spam.hasPii)
  \/ validity.set /\ ~(validity.hasData /\ validity.isProblem)

\* processPost: "already processed, skipping".
AlreadyProcessedNever(rows, id) == FALSE
AlreadyProcessed(rows, id) ==
  Exists(rows, id) /\ rows[id].status = "processed"

\* recordMention's guard over the orchestration state.
MentionGuard(r) ==
  r.clusterResult = "ok" /\ r.categoryResult = "ok" /\ r.sentimentResult = "ok"

\* ------------------------------------------------------ execution state
NoResults ==
  [spam |-> NoSpamResult, validity |-> NoValidity, semantic |-> FALSE,
   sentimentResult |-> "unset", categoryResult |-> "unset",
   categoryId |-> "none", clusterResult |-> "unset", clusterId |-> 0]
NoNearest ==
  [id |-> 0, member_count |-> 0, centroid |-> Rat(0, 1), currentCount |-> 0]
NoObs ==
  [startProcessed |-> FALSE, sawProcessed |-> FALSE, minted |-> 0,
   sentiment |-> "unset",
   caught |-> "none", retryBefore |-> 0, hadRow |-> FALSE]

Verdict(b) == IF b THEN "ok" ELSE "fail"
Parent(w) == ParentId(job[w])
InParent(w) == ~IsDerived(cur[w])

InitStores ==
  /\ posts = <<>>
  /\ categories = {}
  /\ clusters = <<>>
  /\ mentions = <<>>
  /\ piiLastIndex = NoPost
  /\ nextUuid = 1
  /\ assigned = <<>>
  /\ maint = <<>>

InitWorkers ==
  /\ pc = [w \in Workers |-> "idle"]
  /\ job = [w \in Workers |-> NoPost]
  /\ cur = [w \in Workers |-> ParentId(NoPost)]
  /\ todo = [w \in Workers |-> 0]
  /\ res = [w \in Workers |-> NoResults]
  /\ nearest = [w \in Workers |-> NoNearest]
  /\ thrown = [w \in Workers |-> "none"]
  /\ trace = [w \in Workers |-> <<>>]
  /\ obs = [w \in Workers |-> NoObs]
  /\ wrote = [w \in Workers |-> FALSE]
  /\ failures = <<>>
  /\ done = {}

\* The Reddit collector: processes sharing one durable store, each with its
\* OptimizedRedditCollector, and executeSamplingStrategy calls scheduled on
\* them by the limiter (maxConcurrency > 1).
Clients == 0..(NumClients - 1)
Collectors == {"k1", "k2"}
Calls == {"a", "b"}
\* What a credential's listing call answers: submissions, HTTP 429 /
\* "ratelimit", or another error.
RedditAnswers == {"ok", "ratelimit", "error"}
AllOk == [i \in Clients |-> "ok"]
\* cooldownCurrent(60_000), in clock ticks of 30 s.
cooldownTicks == 2

NoCall ==
  [pc |-> "idle", collector |-> "k1", phase |-> "first", attempt |-> 0,
   cli |-> 0, wake |-> 0, first |-> 0, limited |-> {}, result |-> "none",
   from |-> 0, slept |-> FALSE, cooling |-> FALSE, index |-> 0, cooled |-> {},
   requests |-> 0, ready |-> {}, began |-> 0, ended |-> 0]

InitCollectors(answers, calls) ==
  /\ now = 0
  /\ redis = [i \in Clients |-> 0]
  /\ clientIndex = [k \in Collectors |-> 0]
  /\ clientCooldownUntil = [k \in Collectors |-> [i \in Clients |-> 0]]
  /\ reddit \in answers
  /\ poolBudget = calls
  /\ call = [c \in Calls |-> NoCall]
  /\ handed = [k \in Collectors |-> <<>>]

\* The collector's intake.  A post is its id; createdUtc is a number of
\* seconds that need not be whole, counted here in half seconds.
IntakeIds == {"a", "b", "c"}
Subreddits == {"s1", "s2"}
StreamJobs == {"j1", "j2"}
DedupRuns == {"d1", "d2"}
CreatedUtc(id) == CASE id = "a" -> 2 [] id = "b" -> 3 [] OTHER -> 4
Batches == UNION {[1..n -> IntakeIds] : n \in 1..MaxBatchLen}
NoStream ==
  [pc |-> "idle", subreddit |-> "s1", batch |-> <<>>, before |-> 0,
   newOnes |-> <<>>, i |-> 0, unseen |-> <<>>]
NoDedup == [pc |-> "idle", posts |-> <<>>, candidates |-> <<>>, unique |-> <<>>]
NoService ==
  [batches |-> 0, jobs |-> {}, calls |-> 0, queue |-> <<>>, refills |-> 0]

\* The orchestrator's queue.  A job carries data = {rawPost}; BullMQ keeps
\* its state, the attempts made and, for a delayed job, when it is due.
Refills == {"r1", "r2"}
NoRefill == [pc |-> "idle", total |-> 0, inFlight |-> {}, fresh |-> <<>>]
NewJob(p) ==
  [data |-> [rawPost |-> p], state |-> "waiting", attemptsMade |-> 0,
   worker |-> "none", readyAt |-> 0, failedAt |-> 0, runs |-> 0,
   gaps |-> <<>>, error |-> "none"]

InitQueue(queue, refills) ==
  /\ jobs = queue
  /\ refill = [r \in Refills |-> NoRefill]
  /\ pendingRefills = refills
  /\ requeued = {}

InitIntake(b) ==
  /\ lastFetch = [s \in Subreddits |-> 0]
  /\ seenPosts = {}
  /\ seenIds = {}
  /\ mongo = {}
  /\ intakeBudget = b
  /\ stream = [j \in StreamJobs |-> NoStream]
  /\ dedup = [d \in DedupRuns |-> NoDedup]
  /\ reported = [id \in IntakeIds |-> 0]
  /\ filtered = <<>>

\* The rate gate of callLLMWithRetry.  Time is counted in ticks of
\* 60 / maxRequestsPerMinute seconds, in which the request bucket gains one
\* request and the token bucket maxTokensPerMinute / maxRequestsPerMinute
\* tokens.
maxRequestsPerMinute == 2
maxTokensPerMinute == 4
Buckets == {"request", "token"}
Waiters == {"c1", "c2"}
\* new TokenBucket(maxTokens, refillRate)
BucketMax(b) ==
  IF b = "request" THEN maxRequestsPerMinute ELSE maxTokensPerMinute
RefillRate(b) == BucketMax(b) \div maxRequestsPerMinute
\* estimatedTokens of a call: less than, all of, more than the bucket holds.
Estimates == {maxTokensPerMinute \div 2, maxTokensPerMinute,
              maxTokensPerMinute + maxTokensPerMinute \div 2}
NoWaiter ==
  [pc |-> "idle", estimatedTokens |-> 0, slept |-> FALSE,
   had |-> [b \in Buckets |-> 0]]

InitBucket ==
  /\ bucket = [b \in Buckets |-> [tokens |-> BucketMax(b), sinceRefill |-> 0]]
  /\ waiter = [c \in Waiters |-> NoWaiter]

\* The LLM client.  Its window of one minute is windowTicks long; a call
\* is estimated at half of maxTokensPerMinute, a reply is shorter.
LlmCalls == {"g1", "g2", "g3"}
windowTicks == 2
estimatedTokens == maxTokensPerMinute \div 2
tokensUsed == 1
\* outcome: how the call before ended, "ok" and "failed" for an AgentResult
\* with success true and false, "rejected" for a rejected promise.
NoGen ==
  [pc |-> "idle", attempt |-> 0, invoked |-> 0, erred |-> FALSE,
   outcome |-> "none"]
Ended(outcome) == [NoGen EXCEPT !.outcome = outcome]

InitClient ==
  /\ rateLimiter = [tokens |-> 0, requests |-> 0, windowStart |-> 0]
  /\ gen = [g \in LlmCalls |-> NoGen]
  /\ invocations = <<>>

\* The categories table as findOrCreate sees it, and the calls of it.
Finders == {"f1", "f2", "f3"}
CategoryNames == {"fintech", "health"}
NoFinder == [pc |-> "idle", name |-> "none", result |-> 0]
InitCategories ==
  /\ categoryRows = <<>>
  /\ finder = [f \in Finders |-> NoFinder]

\* The call of SpamAgent.checkSpamAndPii followed, with the generateCompletion
\* call it awaits.
Checkers == {"k1"}
GenOf(k) == IF k = "k1" THEN "g1" ELSE "g2"
NoChecker ==
  [pc |-> "idle", post |-> NoPost, ruleSpam |-> FALSE, regexPii |-> FALSE,
   reply |-> "none", result |-> [success |-> FALSE, isSpam |-> FALSE,
                                 hasPii |-> FALSE]]
InitSpamAgent == spamCall = [k \in Checkers |-> NoChecker]

\* fetchNewPostsStreamContinuous: the listing is newest first, a page holds
\* the created_utc of its posts; th = 0 stands for no lastFetchedThreshold.
\* The defaults of timeBudgetMs and pollIntervalMs, in ticks.
timeBudgetTicks == 2
pollIntervalTicks == 1
NoListing == [pages |-> <<>>, th |-> 0]
Listings ==
  [pages : {<<>>, <<<<6, 5>>>>, <<<<6, 5>>, <<4, 3>>>>,
            <<<<6, 5>>, <<4, 3>>, <<2, 1>>>>},
   th : {0, 3, 5}]
NoPoller ==
  [pc |-> "idle", end |-> 0, after |-> 0, hasMore |-> FALSE, pass |-> 0,
   wake |-> 0]
InitPoller(l) ==
  /\ listing = l
  /\ poller = NoPoller
  /\ pollLog = <<>>

InitServices(b) ==
  /\ InitIntake(b) /\ InitQueue(b.queue, b.refills) /\ InitBucket
  /\ InitClient /\ InitCategories /\ InitSpamAgent
  /\ InitPoller(IF "listing" \in DOMAIN b THEN b.listing ELSE NoListing)

\* Inputs: the first post has any content, the second is plain.
Contents(kinds) ==
  {[q \in Posts |-> IF q = "p1" THEN k ELSE Plain] : k \in kinds}
Answers(as) ==
  {[q \in Posts |-> IF q = "p1" THEN a ELSE OkAnswers] : a \in as}
\* Every raw post on a topic of its own / both on one topic.
OwnTopics == [q \in Posts |-> q]
OneTopic == [q \in Posts |-> "p1"]

\* Two workers of one process taking any job in any order; the LLM's verdicts
\* on spam and validity are any, its later stages succeed.
Init ==
  /\ InitStores /\ InitWorkers /\ InitCollectors({AllOk}, 0) /\ InitServices(NoService)
  /\ rawPost \in Contents(ContentKinds)
  /\ llm \in Answers(StageOkAnswers)
  /\ active = Workers
  /\ topic = OwnTopics
  /\ budget = [runs |-> MaxRuns, faults |-> MaxFaults]

\* ------------------------------------------------------------ processPost
Goto(w, next) == pc' = [pc EXCEPT ![w] = next]
Ran(w, stage) == trace' = [trace EXCEPT ![w] = Append(@, stage)]
Wrote(w) == wrote' = [wrote EXCEPT ![w] = TRUE]
CountFailure(id) ==
  failures' = (id :> (IF id \in DOMAIN failures THEN failures[id] ELSE 0) + 1)
              @@ failures

\* The worker's handler is invoked with a job: any raw post, any number of
\* times (enqueued twice, refilled again, retried by the queue).
Start(w, p) ==
  /\ w \in active
  /\ pc[w] \in {"idle", "returned", "threw"}
  /\ budget.runs > 0
  /\ budget' = [budget EXCEPT !.runs = @ - 1]
  /\ Goto(w, "find")
  /\ job' = [job EXCEPT ![w] = p]
  /\ cur' = [cur EXCEPT ![w] = ParentId(p)]
  /\ todo' = [todo EXCEPT ![w] = 0]
  /\ res' = [res EXCEPT ![w] = NoResults]
  /\ nearest' = [nearest EXCEPT ![w] = NoNearest]
  /\ thrown' = [thrown EXCEPT ![w] = "none"]
  /\ trace' = [trace EXCEPT ![w] = <<>>]
  /\ obs' = [obs EXCEPT ![w] =
               [NoObs EXCEPT !.startProcessed =
                  Exists(posts, ParentId(p))
                  /\ posts[ParentId(p)].status = "processed"]]
  /\ wrote' = [wrote EXCEPT ![w] = FALSE]
  /\ UNCHANGED <<storeVars, otherVars, piiLastIndex, nextUuid, failures, done>>

\* const existingPost = await this.postsRepo.findById(postId)
FindById(w) ==
  /\ pc[w] = "find"
  /\ obs' = [obs EXCEPT ![w].sawProcessed =
               Exists(posts, Parent(w)) /\ posts[Parent(w)].status = "processed"]
  /\ IF AlreadyProcessed(posts, Parent(w))
     THEN Goto(w, "returned") /\ done' = done \cup {job[w]}
     ELSE Goto(w, "spam") /\ UNCHANGED done
  /\ UNCHANGED <<storeVars, otherVars, piiLastIndex, nextUuid, budget, job,
                 cur, todo, res, nearest, thrown, trace, wrote, failures>>

\* Step 1: spamCheck, then shouldStop.
SpamCheck(w) ==
  /\ pc[w] = "spam"
  /\ \E o \in PiiTestOutcomes(job[w], piiLastIndex),
        a \in Choice(job[w], "spam", SpamAnswers) :
       LET v == SpamVerdict(rawPost[job[w]].spamWords, o.hit, a) IN
       /\ piiLastIndex' = o.li
       /\ res' = [res EXCEPT ![w].spam = v]
       /\ Goto(w, IF shouldStop(v, NoValidity) THEN "final" ELSE "validity")
  /\ Ran(w, "spam")
  /\ UNCHANGED <<storeVars, otherVars, nextUuid, budget, job, cur, todo,
                 nearest, thrown, obs, wrote, failures, done>>

\* Step 2: validityCheck, then shouldStop.
ValidityCheck(w) ==
  /\ pc[w] = "validity"
  /\ \E v \in ValidityOutcomes(job[w]) :
       /\ res' = [res EXCEPT ![w].validity = v]
       /\ Goto(w, IF shouldStop(res[w].spam, v) THEN "final" ELSE "create")
  /\ Ran(w, "validity")
  /\ UNCHANGED <<storeVars, otherVars, piiLastIndex, nextUuid, budget, job,
                 cur, todo, nearest, thrown, obs, wrote, failures, done>>

\* await this.postsRepo.createFromRawPost(rawPost)
CreateFromRawPost(w) ==
  /\ pc[w] = "create"
  /\ posts' = UpsertProcessing(posts, Parent(w))
  /\ Goto(w, "flags") /\ Wrote(w)
  /\ UNCHANGED <<categories, clusters, mentions, otherVars, piiLastIndex,
                 nextUuid, budget, job, cur, todo, res, nearest, thrown,
                 trace, obs, failures, done>>

\* updateSpamPiiFlags, then the branch on derivedProblems.
WriteSpamPiiFlags(w) ==
  /\ pc[w] = "flags"
  /\ posts' = UpdateSpamPiiFlags(posts, Parent(w))
  /\ Wrote(w)
  /\ IF res[w].validity.derived > 0
     THEN Goto(w, "derive") /\ todo' = [todo EXCEPT ![w] = res[w].validity.derived]
     ELSE Goto(w, "validflag") /\ UNCHANGED todo
  /\ UNCHANGED <<categories, clusters, mentions, otherVars, piiLastIndex,
                 nextUuid, budget, job, cur, res, nearest, thrown, trace, obs,
                 failures, done>>

WriteValidityCheck(w) ==
  /\ pc[w] = "validflag"
  /\ posts' = UpdateValidityCheck(posts, Parent(w))
  /\ Goto(w, "classification") /\ Wrote(w)
  /\ UNCHANGED <<categories, clusters, mentions, otherVars, piiLastIndex,
                 nextUuid, budget, job, cur, todo, res, nearest, thrown,
                 trace, obs, failures, done>>

\* processDerivedProblems: one iteration starts with createDerivedProblem and
\* runs the stages on the derived record; its try/catch swallows any error.
StageResults(r) ==
  [r EXCEPT !.semantic = FALSE, !.sentimentResult = "unset",
            !.categoryResult = "unset", !.categoryId = "none",
            !.clusterResult = "unset", !.clusterId = 0]

\* The problems still to do once the current iteration is over: a failed
\* createDerivedProblem has used up its problem as well.
LeftNone(w) == 0
Left(w) == IF pc[w] = "derive" THEN todo[w] - 1 ELSE todo[w]

NextProblem(w) ==
  /\ Goto(w, IF Left(w) > 0 THEN "derive" ELSE "classification")
  /\ todo' = [todo EXCEPT ![w] = Left(w)]
  /\ cur' = [cur EXCEPT ![w] = Parent(w)]
  /\ res' = [res EXCEPT ![w] = StageResults(@)]
  /\ nearest' = [nearest EXCEPT ![w] = NoNearest]

CreateDerivedProblem(w) ==
  /\ pc[w] = "derive"
  /\ LET id == [post |-> job[w], uuid |-> nextUuid] IN
       /\ posts' = UpsertProcessing(posts, id)
       /\ cur' = [cur EXCEPT ![w] = id]
  /\ nextUuid' = nextUuid + 1
  /\ todo' = [todo EXCEPT ![w] = @ - 1]
  /\ Goto(w, "classification") /\ Wrote(w)
  /\ UNCHANGED <<categories, clusters, mentions, otherVars, piiLastIndex,
                 budget, job, res, nearest, thrown, trace, obs, failures, done>>


\* A stage's result is merged into the state whatever its success flag says
\* (state = { ...state, ...result }); the next stage is called in any case.
AfterStageAbort(ok, next) == IF ok THEN next ELSE "final"
AfterStage(ok, next) == next

\* Step 3: classification (agent, then updateClassification on success).
Classification(w) ==
  /\ pc[w] = "classification"
  /\ \E ok \in Choice(job[w], "classification", BOOLEAN) :
       /\ IF ok THEN posts' = UpdateClassification(posts, cur[w]) /\ Wrote(w)
          ELSE UNCHANGED <<posts, wrote>>
       /\ Goto(w, AfterStage(ok, "semantic"))
  /\ Ran(w, "classification")
  /\ UNCHANGED <<categories, clusters, mentions, otherVars, piiLastIndex,
                 nextUuid, budget, job, cur, todo, res, nearest, thrown, obs,
                 failures, done>>

\* Step 4: semanticAnalysis.
SemanticAnalysis(w) ==
  /\ pc[w] = "semantic"
  /\ \E ok \in Choice(job[w], "semantic", BOOLEAN) :
       /\ Goto(w, AfterStage(ok, "sentiment"))
       /\ res' = [res EXCEPT ![w].semantic = ok]
       /\ IF ok THEN posts' = UpdateSemanticAnalysis(posts, cur[w]) /\ Wrote(w)
          ELSE UNCHANGED <<posts, wrote>>
  /\ Ran(w, "semantic")
  /\ UNCHANGED <<categories, clusters, mentions, otherVars, piiLastIndex,
                 nextUuid, budget, job, cur, todo, nearest, thrown, obs,
                 failures, done>>

\* Step 5: sentimentAnalysis returns { sentimentResult: result }.
SentimentAnalysis(w) ==
  /\ pc[w] = "sentiment"
  /\ \E ok \in Choice(job[w], "sentiment", BOOLEAN) :
       /\ Goto(w, AfterStage(ok, "business"))
       /\ res' = [res EXCEPT ![w].sentimentResult = Verdict(ok)]
       /\ obs' = [obs EXCEPT ![w].sentiment =
                    IF InParent(w) THEN Verdict(ok) ELSE @]
       /\ IF ok THEN posts' = UpdateSentiment(posts, cur[w]) /\ Wrote(w)
          ELSE UNCHANGED <<posts, wrote>>
  /\ Ran(w, "sentiment")
  /\ UNCHANGED <<categories, clusters, mentions, otherVars, piiLastIndex,
                 nextUuid, budget, job, cur, todo, nearest, thrown, failures,
                 done>>

\* businessIdeaAnalysis returns { sentimentResult: result } as well, and the
\* caller merges it into the state: state = { ...state, ...businessIdeaResult }.
BusinessIdeaMerge(r, result) == [r EXCEPT !.sentimentResult = result]

BusinessIdeaAnalysis(w) ==
  /\ pc[w] = "business"
  /\ \E ok \in Choice(job[w], "business", BOOLEAN) :
       /\ Goto(w, AfterStage(ok, "category"))
       /\ res' = [res EXCEPT ![w] = BusinessIdeaMerge(@, Verdict(ok))]
       /\ IF ok THEN posts' = UpdateBusinessIdea(posts, cur[w]) /\ Wrote(w)
          ELSE UNCHANGED <<posts, wrote>>
  /\ Ran(w, "business")
  /\ UNCHANGED <<categories, clusters, mentions, otherVars, piiLastIndex,
                 nextUuid, budget, job, cur, todo, nearest, thrown, obs,
                 failures, done>>

\* Step 6: CategoryAgent.assignCategory (findAll, LLM, findOrCreate).
CategoryName(id) == id.post

CategoryAssignment(w) ==
  /\ pc[w] = "category"
  /\ \E ok \in Choice(job[w], "category", BOOLEAN) :
       IF ok
       THEN /\ categories' = categories \cup {CategoryName(cur[w])}
            /\ res' = [res EXCEPT ![w].categoryResult = "ok",
                                  ![w].categoryId = CategoryName(cur[w])]
            /\ wrote' = [wrote EXCEPT ![w] =
                           @ \/ CategoryName(cur[w]) \notin categories]
            /\ Goto(w, "categoryLink")
       ELSE /\ res' = [res EXCEPT ![w].categoryResult = "fail"]
            /\ Goto(w, "clusterFind")
            /\ UNCHANGED <<categories, wrote>>
  /\ Ran(w, "category")
  /\ UNCHANGED <<posts, clusters, mentions, otherVars, piiLastIndex, nextUuid,
                 budget, job, cur, todo, nearest, thrown, obs, failures, done>>

WriteCategory(w) ==
  /\ pc[w] = "categoryLink"
  /\ posts' = UpdateCategory(posts, cur[w], res[w].categoryId)
  /\ Goto(w, "clusterFind") /\ Wrote(w)
  /\ UNCHANGED <<categories, clusters, mentions, otherVars, piiLastIndex,
                 nextUuid, budget, job, cur, todo, res, nearest, thrown,
                 trace, obs, failures, done>>

\* Step 7: ClusterAgent.assignCluster.  Without an embedding (semantic
\* failed, embedding = []) the vector RPC answers with an error and the agent
\* returns success = false.
ClusterFind(w) ==
  /\ pc[w] = "clusterFind"
  /\ IF res[w].semantic
     THEN /\ nearest' = [nearest EXCEPT ![w] =
                 FindNearestCluster(clusters, EmbeddingKey(cur[w]),
                                    Embedding(cur[w]))
                 @@ [currentCount |-> 0]]
          /\ Goto(w, "clusterWrite")
          /\ UNCHANGED res
     ELSE /\ res' = [res EXCEPT ![w].clusterResult = "fail"]
          /\ Goto(w, "mention")
          /\ UNCHANGED nearest
  /\ Ran(w, "cluster")
  /\ UNCHANGED <<storeVars, otherVars, piiLastIndex, nextUuid, budget, job,
                 cur, todo, thrown, obs, wrote, failures, done>>

\* nearestCluster ? updateCentroid(id, newCentroid, memberCount + 1) : create(...)
ClusterWrite(w) ==
  /\ pc[w] = "clusterWrite"
  /\ IF nearest[w].id = 0
     THEN /\ clusters' = ClustersCreate(clusters, EmbeddingKey(cur[w]),
                                        Embedding(cur[w]))
          /\ res' = [res EXCEPT ![w].clusterResult = "ok",
                                ![w].clusterId = Len(clusters) + 1]
          /\ assigned' = Append(assigned, [n |-> 1, sum |-> Embedding(cur[w])])
          /\ Goto(w, "clusterLink")
     ELSE /\ clusters' = UpdateCentroid(clusters, nearest[w].id,
                            UpdateCentroidIncremental(nearest[w].centroid,
                              nearest[w].member_count, Embedding(cur[w])),
                            nearest[w].member_count + 1)
          /\ UNCHANGED <<res, assigned>>
          /\ Goto(w, "clusterIncr")
  /\ Wrote(w)
  /\ UNCHANGED <<posts, categories, mentions, sideVars, piiLastIndex,
                 nextUuid, budget, job, cur, todo, nearest, thrown, trace,
                 obs, failures, done>>

\* await this.clustersRepo.incrementMemberCount(clusterId): the select.
ClusterIncrement(w) ==
  /\ pc[w] = "clusterIncr"
  /\ nearest' = [nearest EXCEPT ![w].currentCount =
                   clusters[nearest[w].id].member_count]
  /\ Goto(w, "clusterIncrWrite")
  /\ UNCHANGED <<storeVars, otherVars, piiLastIndex, nextUuid, budget, job,
                 cur, todo, res, thrown, trace, obs, wrote, failures, done>>

\* incrementMemberCount: the update; assignCluster then returns success.
ClusterIncrementWrite(w) ==
  /\ pc[w] = "clusterIncrWrite"
  /\ clusters' = IncrementMemberCount(clusters, nearest[w].id,
                                      nearest[w].currentCount)
  /\ res' = [res EXCEPT ![w].clusterResult = "ok",
                        ![w].clusterId = nearest[w].id]
  /\ assigned' = [assigned EXCEPT ![nearest[w].id] =
                    [n |-> @.n + 1, sum |-> @.sum + Embedding(cur[w])]]
  /\ Goto(w, "clusterLink") /\ Wrote(w)
  /\ UNCHANGED <<posts, categories, mentions, sideVars, piiLastIndex,
                 nextUuid, budget, job, cur, todo, nearest, thrown, trace,
                 obs, failures, done>>

WriteCluster(w) ==
  /\ pc[w] = "clusterLink"
  /\ posts' = UpdateCluster(posts, cur[w], res[w].clusterId)
  /\ Goto(w, "mention") /\ Wrote(w)
  /\ UNCHANGED <<categories, clusters, mentions, otherVars, piiLastIndex,
                 nextUuid, budget, job, cur, todo, res, nearest, thrown,
                 trace, obs, failures, done>>

\* Step 8: recordMention; in processDerivedProblems it ends the iteration.
RecordMention(w) ==
  /\ pc[w] = "mention"
  /\ IF MentionGuard(res[w])
     THEN /\ mentions' = MentionsCreate(mentions, cur[w])
          /\ obs' = [obs EXCEPT ![w].minted = IF InParent(w) THEN @ + 1 ELSE @]
          /\ Wrote(w)
     ELSE UNCHANGED <<mentions, obs, wrote>>
  /\ Ran(w, "mention")
  /\ IF InParent(w)
     THEN Goto(w, "final") /\ UNCHANGED <<cur, todo, res, nearest>>
     ELSE NextProblem(w)
  /\ UNCHANGED <<posts, categories, clusters, otherVars, piiLastIndex,
                 nextUuid, budget, job, thrown, failures, done>>

\* "Mark as completed": updateById(postId, {status: processed, ...}, true);
\* a missing row (PGRST116) is ignored.
MarkCompleted(w) ==
  /\ pc[w] = "final"
  /\ IF Exists(posts, Parent(w))
     THEN posts' = MarkProcessed(posts, Parent(w)) /\ Wrote(w)
     ELSE UNCHANGED <<posts, wrote>>
  /\ Goto(w, "returned")
  /\ done' = done \cup {job[w]}
  /\ UNCHANGED <<categories, clusters, mentions, otherVars, piiLastIndex,
                 nextUuid, budget, job, cur, todo, res, nearest, thrown,
                 trace, obs, failures>>

\* catch (error): updateById(postId, {status: failed, ...}); throw error.
\* Without a row the update itself throws PGRST116 out of the catch block.
CatchMarkFailed(w) ==
  /\ pc[w] = "catch"
  /\ obs' = [obs EXCEPT ![w].hadRow = Exists(posts, Parent(w)),
                        ![w].retryBefore =
                          IF Exists(posts, Parent(w))
                          THEN posts[Parent(w)].retry_count ELSE 0]
  /\ IF Exists(posts, Parent(w))
     THEN /\ posts' = MarkFailed(posts, Parent(w))
          /\ CountFailure(Parent(w))
          /\ thrown' = [thrown EXCEPT ![w] = obs[w].caught]
          /\ Wrote(w)
     ELSE /\ thrown' = [thrown EXCEPT ![w] = "PGRST116"]
          /\ UNCHANGED <<posts, failures, wrote>>
  /\ Goto(w, "threw")
  /\ UNCHANGED <<categories, clusters, mentions, otherVars, piiLastIndex,
                 nextUuid, budget, job, cur, todo, res, nearest, trace, done>>


\* ---------------------------------------------------------- store errors
\* Every repository call ends in `if (error) throw error`.  An error of a
\* call the orchestrator makes itself leaves the pipeline as an exception:
\* to processPost's catch block, or, inside processDerivedProblems, to the
\* loop's own try/catch, which logs it and goes on with the next problem.
AlwaysCallPcs ==
  {"find", "create", "flags", "validflag", "derive", "categoryLink",
   "clusterLink", "final", "catch"}
UpdateAfterStagePcs == {"classification", "semantic", "sentiment", "business"}

CallsStore(w) ==
  \/ pc[w] \in AlwaysCallPcs
  \/ pc[w] \in UpdateAfterStagePcs /\ TRUE \in Choice(job[w], pc[w], BOOLEAN)
  \/ pc[w] = "mention" /\ MentionGuard(res[w])

StoreFault(w) ==
  /\ CallsStore(w)
  /\ budget.faults > 0
  /\ budget' = [budget EXCEPT !.faults = @ - 1]
  /\ trace' = [trace EXCEPT ![w] =
                 IF pc[w] \in UpdateAfterStagePcs \cup {"mention"}
                 THEN Append(@, pc[w]) ELSE @]
  /\ IF pc[w] = "catch"
     THEN /\ Goto(w, "threw")
          /\ thrown' = [thrown EXCEPT ![w] = "E2"]
          /\ UNCHANGED <<cur, todo, res, nearest>>
          /\ obs' = [obs EXCEPT ![w].hadRow = Exists(posts, Parent(w)),
                                ![w].retryBefore =
                                  IF Exists(posts, Parent(w))
                                  THEN posts[Parent(w)].retry_count ELSE 0]
     ELSE IF InParent(w) /\ pc[w] # "derive"
     THEN /\ Goto(w, "catch")
          /\ obs' = [obs EXCEPT ![w].caught = "E1",
                                ![w].sentiment =
                                  IF pc[w] = "sentiment" THEN "ok" ELSE @]
          /\ UNCHANGED <<cur, todo, res, nearest, thrown>>
     ELSE /\ NextProblem(w)
          /\ UNCHANGED <<obs, thrown>>
  /\ UNCHANGED <<storeVars, otherVars, piiLastIndex, nextUuid, job, wrote,
                 failures, done>>

\* An error of a store call made inside ClusterAgent.assignCluster is caught
\* there: the stage returns success = false and the pipeline goes on.
ClusterFault(w) ==
  /\ pc[w] \in {"clusterFind", "clusterWrite", "clusterIncr",
               "clusterIncrWrite"}
  /\ pc[w] = "clusterFind" => res[w].semantic
  /\ budget.faults > 0
  /\ budget' = [budget EXCEPT !.faults = @ - 1]
  /\ res' = [res EXCEPT ![w].clusterResult = "fail"]
  /\ trace' = [trace EXCEPT ![w] =
                 IF pc[w] = "clusterFind" THEN Append(@, "cluster") ELSE @]
  /\ Goto(w, "mention")
  /\ UNCHANGED <<storeVars, otherVars, piiLastIndex, nextUuid, job, cur, todo,
                 nearest, thrown, obs, wrote, failures, done>>

\* ------------------------------------------------------- specifications
Stages(w) ==
  \/ FindById(w)
  \/ SpamCheck(w)
  \/ ValidityCheck(w)
  \/ CreateFromRawPost(w)
  \/ WriteSpamPiiFlags(w)
  \/ WriteValidityCheck(w)
  \/ CreateDerivedProblem(w)
  \/ Classification(w)
  \/ SemanticAnalysis(w)
  \/ SentimentAnalysis(w)
  \/ BusinessIdeaAnalysis(w)
  \/ CategoryAssignment(w)
  \/ WriteCategory(w)
  \/ ClusterFind(w)
  \/ ClusterWrite(w)
  \/ ClusterIncrement(w)
  \/ ClusterIncrementWrite(w)
  \/ WriteCluster(w)
  \/ RecordMention(w)
  \/ MarkCompleted(w)

Pipeline(w) == (\E p \in Posts : Start(w, p)) \/ Stages(w)

Failing(w) ==
  \/ StoreFault(w)
  \/ ClusterFault(w)
  \/ CatchMarkFailed(w)

Next == \E w \in Workers : Pipeline(w) \/ Failing(w)

Spec == Init /\ [][Next]_vars

\* One worker, the LLM answering anything on every call.
InitSeq ==
  /\ InitStores /\ InitWorkers /\ InitCollectors({AllOk}, 0) /\ InitServices(NoService)
  /\ rawPost \in Contents(ContentKinds)
  /\ llm = [p \in Posts |-> FreeAnswers]
  /\ active = {"w1"}
  /\ topic = OwnTopics
  /\ budget = [runs |-> MaxSeqRuns, faults |-> MaxSeqFaults]

SpecSeq == InitSeq /\ [][Next]_vars

\* One worker re-running jobs that keep failing on store errors.
InitRetry ==
  /\ InitStores /\ InitWorkers /\ InitCollectors({AllOk}, 0) /\ InitServices(NoService)
  /\ rawPost \in Contents({Plain})
  /\ llm \in Answers({OkAnswers, [OkAnswers EXCEPT !.validity = "derived"]})
  /\ active = {"w1"}
  /\ topic = OwnTopics
  /\ budget = [runs |-> MaxRetryRuns, faults |-> MaxRetryFaults]

SpecRetry == InitRetry /\ [][Next]_vars

\* One worker, no store error, content and LLM answers fixed for the whole
\* behaviour.
InitFixed ==
  /\ InitStores /\ InitWorkers /\ InitCollectors({AllOk}, 0) /\ InitServices(NoService)
  /\ rawPost \in Contents(ContentKinds)
  /\ llm \in Answers(FixedAnswers)
  /\ active = {"w1"}
  /\ topic = OwnTopics
  /\ budget = [runs |-> MaxFixedRuns, faults |-> 0]

NextFixed == \E w \in Workers : Pipeline(w)

SpecFixed == InitFixed /\ [][NextFixed]_vars

\* ---------------------------------------------------- ClusteringService
\* Each operation is taken as one step: the store calls it awaits run with
\* nothing of processPost in between.
PostsIn(rows, c) == {id \in DOMAIN rows : rows[id].cluster_id = c}
Processed(rows) == {id \in DOMAIN rows : rows[id].status = "processed"}

\* recomputeClusterCentroid: the processed posts of the cluster that carry an
\* embedding; nothing is written when there are none.
RecomputeClusterCentroid(rows, cl, c) ==
  LET postsWithEmbeddings ==
        {id \in PostsIn(rows, c) \cap Processed(rows) : rows[id].embedding}
  IN IF postsWithEmbeddings = {} THEN cl
     ELSE UpdateCentroid(cl, c, CalculateCentroid(postsWithEmbeddings),
                         Cardinality(postsWithEmbeddings))

\* recomputeAllCentroids: for (const cluster of clusters) from index c on.
RECURSIVE RecomputeFrom(_, _, _)
RecomputeFrom(rows, cl, c) ==
  IF c > Len(cl) THEN cl
  ELSE RecomputeFrom(rows, RecomputeClusterCentroid(rows, cl, c), c + 1)

\* reassignOutliers: for (const post of posts) over the processed posts `ids`
\* still to visit; st = [posts, clusters].
RECURSIVE ReassignEach(_, _)
ReassignEach(st, ids) ==
  IF ids = {} THEN st
  ELSE LET id == CHOOSE x \in ids : TRUE
           row == st.posts[id]
           bestCluster == FindNearestCluster(st.clusters, EmbeddingKey(id),
                                             Embedding(id))
       IN IF ~row.embedding \/ row.cluster_id = 0
          THEN ReassignEach(st, ids \ {id})
          ELSE IF bestCluster.id # 0 /\ bestCluster.id # row.cluster_id
          THEN ReassignEach(
                 [posts |-> UpdateCluster(st.posts, id, bestCluster.id),
                  clusters |-> IncrementMemberCount(st.clusters, bestCluster.id,
                                 st.clusters[bestCluster.id].member_count)],
                 ids \ {id})
          ELSE ReassignEach(st, ids \ {id})

\* mergeClusters(keepClusterId, mergeClusterId).
MergeClusters(st, keep, merge) ==
  LET moved == [id \in DOMAIN st.posts |->
                  IF st.posts[id].cluster_id = merge
                  THEN [st.posts[id] EXCEPT !.cluster_id = keep]
                  ELSE st.posts[id]]
  IN [posts |-> moved,
      clusters |-> RecomputeClusterCentroid(moved, st.clusters, keep)]

\* calculateCosineSimilarity(a.centroid, b.centroid) > similarityThreshold:
\* centroids on one topic.
Similar(a, b) == a.key = b.key

\* mergeSimilarClusters: the outer loop from index i on over the rows `all`
\* read by findAll; every i is merged with its first similar j > i not yet
\* merged (break).
RECURSIVE MergeFrom(_, _, _, _)
MergeFrom(st, all, merged, i) ==
  IF i > Len(all) THEN st
  ELSE LET js == {j \in (i + 1)..Len(all) :
                    j \notin merged /\ Similar(all[i], all[j])}
       IN IF i \in merged \/ js = {} THEN MergeFrom(st, all, merged, i + 1)
          ELSE LET j == CHOOSE x \in js : \A y \in js : x <= y
               IN MergeFrom(MergeClusters(st, i, j), all, merged \cup {j},
                            i + 1)

pipelineVars ==
  <<categories, mentions, inputVars, poolVars, serviceVars, assigned,
    piiLastIndex, nextUuid, budget,
    pc, job, cur, todo, res, nearest, thrown, trace, obs, wrote, failures,
    done>>

RecomputeAllCentroids ==
  /\ Len(maint) < MaxMaintOps
  /\ clusters' = RecomputeFrom(posts, clusters, 1)
  /\ maint' = Append(maint, "recompute")
  /\ UNCHANGED <<posts, pipelineVars>>

ReassignOutliers ==
  /\ Len(maint) < MaxMaintOps
  /\ LET st == ReassignEach([posts |-> posts, clusters |-> clusters],
                            Processed(posts))
     IN posts' = st.posts /\ clusters' = st.clusters
  /\ maint' = Append(maint, "reassign")
  /\ UNCHANGED pipelineVars

MergeSimilarClusters ==
  /\ Len(maint) < MaxMaintOps
  /\ LET st == MergeFrom([posts |-> posts, clusters |-> clusters], clusters,
                         {}, 1)
     IN posts' = st.posts /\ clusters' = st.clusters
  /\ maint' = Append(maint, "merge")
  /\ UNCHANGED pipelineVars

Maintenance ==
  \/ RecomputeAllCentroids
  \/ ReassignOutliers
  \/ MergeSimilarClusters

\* Two workers on plain posts whose stages succeed, on one topic or two, and
\* the maintenance operations at any moment.
InitCluster ==
  /\ InitStores /\ InitWorkers /\ InitCollectors({AllOk}, 0) /\ InitServices(NoService)
  /\ rawPost \in Contents({Plain})
  /\ llm \in Answers({OkAnswers, [OkAnswers EXCEPT !.validity = "derived"]})
  /\ active = Workers
  /\ topic \in {OwnTopics, OneTopic}
  /\ budget = [runs |-> MaxClusterRuns, faults |-> 0]

NextCluster == (\E w \in Workers : Pipeline(w)) \/ Maintenance

SpecCluster == InitCluster /\ [][NextCluster]_vars


\* ------------------------------------------------- credential rotation
\* Everything but the collector's own state.
enrichButPc ==
  <<storeVars, inputVars, assigned, maint, piiLastIndex, nextUuid, budget,
    job, cur, todo, res, nearest, thrown, trace, obs, wrote, failures, done>>
enrichVars == <<enrichButPc, pc>>
orchestratorVars == <<enrichVars, serviceVars>>

Max(a, b) == IF a > b THEN a ELSE b
SetMin(S) == CHOOSE x \in S : \A y \in S : x <= y

\* redis.get(`cooldown:${index}`): the key is set with a TTL of the cooldown
\* and is gone once that has passed; 0 stands for no value.
RedisGet(i) == IF redis[i] > now THEN redis[i] ELSE 0

\* nextClient, "Refresh local cooldown cache from Redis".
Hydrate(local) ==
  [i \in Clients |-> IF RedisGet(i) # 0 THEN RedisGet(i) ELSE local[i]]

\* nextClient, "Find the first client that is not cooling down": the offsets
\* from clientIndex whose candidate passes Date.now() >= cooldownUntil.
ReadyOffsets(index, local) ==
  {offset \in 0..(NumClients - 1) :
     now >= local[(index + offset) % NumClients]}

\* Math.min(...clientCooldownUntil.map(ts => Math.max(0, ts - Date.now())))
ShortestWaitMs(local) == SetMin({Max(0, local[i] - now) : i \in Clients})

\* The cooldown in force for client i as collector k can know it: its local
\* vector and the durable key.
CooldownUntil(local, i) == Max(local[i], RedisGet(i))

\* limiter.schedule(() => this.executeSamplingStrategy(strategy))
StartCall(c, k) ==
  /\ call[c].pc \in {"idle", "done"}
  /\ poolBudget > 0
  /\ poolBudget' = poolBudget - 1
  /\ call' = [call EXCEPT ![c] = [NoCall EXCEPT !.pc = "next", !.collector = k,
                                                !.began = now]]
  /\ UNCHANGED <<now, redis, clientIndex, clientCooldownUntil, reddit, handed,
                 orchestratorVars>>

\* What the call holds once nextClient has returned client i.
Returned(c, i, local, slept) ==
  [call[c] EXCEPT !.pc = "request", !.cli = i,
                  !.first = IF call[c].phase = "first" THEN i ELSE @,
                  !.slept = slept,
                  !.cooling = CooldownUntil(local, i) > now]

\* nextClient up to its return or to the setTimeout.
NextClientScan(c) ==
  /\ call[c].pc = "next"
  /\ LET k == call[c].collector
         local == Hydrate(clientCooldownUntil[k])
         offsets == ReadyOffsets(clientIndex[k], local)
         candidateIndex == (clientIndex[k] + SetMin(offsets)) % NumClients
     IN /\ clientCooldownUntil' = [clientCooldownUntil EXCEPT ![k] = local]
        /\ IF offsets # {}
           THEN /\ clientIndex' = [clientIndex EXCEPT ![k] = candidateIndex]
                /\ call' = [call EXCEPT ![c] =
                              Returned(c, candidateIndex, local, FALSE)]
                /\ handed' = [handed EXCEPT ![k] = Append(@, candidateIndex)]
           ELSE /\ call' = [call EXCEPT ![c].pc = "sleep",
                                        ![c].wake = now + ShortestWaitMs(local)]
                /\ UNCHANGED <<clientIndex, handed>>
  /\ UNCHANGED <<now, redis, reddit, poolBudget, orchestratorVars>>

\* nextClient after the timer: "Advance to the next client in round-robin
\* order" and return it.
NextClientWake(c) ==
  /\ call[c].pc = "sleep"
  /\ now >= call[c].wake
  /\ LET k == call[c].collector
         i == (clientIndex[k] + 1) % NumClients
     IN /\ clientIndex' = [clientIndex EXCEPT ![k] = i]
        /\ call' = [call EXCEPT ![c] =
                      Returned(c, i, clientCooldownUntil[k], TRUE)]
        /\ handed' = [handed EXCEPT ![k] = Append(@, i)]
  /\ UNCHANGED <<now, redis, clientCooldownUntil, reddit, poolBudget,
                 orchestratorVars>>

\* The call is over: what it returns and how it leaves the collector.
Finish(c, result, index, local) ==
  [call[c] EXCEPT !.pc = "done", !.result = result, !.from = call[c].cli,
                  !.index = index, !.requests = @ + 1, !.ended = now,
                  !.ready = {i \in Clients : local[i] <= now}]

\* The listing call on the client nextClient returned, and what follows it
\* without another await: the return, or the catch with cooldownCurrent.
Request(c) ==
  /\ call[c].pc = "request"
  /\ LET k == call[c].collector
         idx == clientIndex[k]
         until == now + cooldownTicks
         local == [clientCooldownUntil[k] EXCEPT ![idx] = until]
         limited == [call[c] EXCEPT !.limited = @ \cup {call[c].cli},
                                    !.cooled = @ \cup {idx},
                                    !.requests = @ + 1]
         more == IF call[c].phase = "first" THEN NumClients - 1 > 0
                 ELSE call[c].attempt + 1 < NumClients - 1
     IN CASE reddit[call[c].cli] = "ok" ->
               /\ call' = [call EXCEPT ![c] =
                             Finish(c, "posts", idx, clientCooldownUntil[k])]
               /\ UNCHANGED <<redis, clientCooldownUntil>>
          [] reddit[call[c].cli] = "ratelimit" ->
               /\ clientCooldownUntil' =
                    [clientCooldownUntil EXCEPT ![k] = local]
               /\ redis' = [redis EXCEPT ![idx] = until]
               /\ call' = [call EXCEPT ![c] =
                    IF more
                    THEN [limited EXCEPT
                            !.pc = "next", !.phase = "retry",
                            !.attempt = IF call[c].phase = "first" THEN 0
                                        ELSE @ + 1]
                    ELSE [Finish(c, "empty", idx, local) EXCEPT
                            !.limited = limited.limited,
                            !.cooled = limited.cooled]]
          [] OTHER ->
               /\ call' = [call EXCEPT ![c] =
                             Finish(c, "empty", idx, clientCooldownUntil[k])]
               /\ UNCHANGED <<redis, clientCooldownUntil>>
  /\ UNCHANGED <<now, clientIndex, reddit, poolBudget, handed,
                 orchestratorVars>>

\* Time passes.
Tick ==
  /\ now < MaxTime
  /\ now' = now + 1
  /\ UNCHANGED <<redis, clientIndex, clientCooldownUntil, reddit, poolBudget,
                 call, handed, orchestratorVars>>

\* Two collector processes on one durable store, no post being enriched.
InitPool ==
  /\ InitStores /\ InitWorkers
  /\ rawPost \in Contents({Plain})
  /\ llm \in Answers({OkAnswers})
  /\ active = {}
  /\ topic = OwnTopics
  /\ budget = [runs |-> 0, faults |-> 0]
  /\ InitCollectors([Clients -> RedditAnswers], MaxPoolCalls)
  /\ InitServices(NoService)

NextPool ==
  \/ \E c \in Calls, k \in Collectors : StartCall(c, k)
  \/ \E c \in Calls : NextClientScan(c)
  \/ \E c \in Calls : NextClientWake(c)
  \/ \E c \in Calls : Request(c)
  \/ Tick

SpecPool == InitPool /\ [][NextPool]_vars

\* One execution by one worker of a post for which ValidityCheck returns
\* several derived problems (or none), with a store that may fail once.
InitDerived ==
  /\ InitStores /\ InitWorkers /\ InitCollectors({AllOk}, 0)
  /\ InitServices(NoService)
  /\ rawPost \in Contents({Plain})
  /\ llm \in Answers({OkAnswers, [OkAnswers EXCEPT !.validity = "derivedMany"]})
  /\ active = {"w1"}
  /\ topic = OneTopic
  /\ budget = [runs |-> 1, faults |-> MaxDerivedFaults]

SpecDerived == InitDerived /\ [][Next]_vars

\* ------------------------------------------------------ collector intake
\* Everything but the intake's own state.
coreVars == <<enrichVars, poolVars, queueVars, bucketVars, clientVars,
              laterVars>>

\* parseInt(text, 10) of the decimal text of a number: the digits before the
\* point.  An absent key reads as "0"; the key is never set to 0.
ParseInt(h) == 2 * (h \div 2)
NewOnes(batch, lastFetched) ==
  SelectSeq(batch, LAMBDA id : CreatedUtc(id) > lastFetched)
Latest(ps) ==
  CHOOSE x \in {CreatedUtc(ps[i]) : i \in 1..Len(ps)} :
    \A i \in 1..Len(ps) : CreatedUtc(ps[i]) <= x
Ids(ps) == {ps[i] : i \in 1..Len(ps)}
Times(ps, id) == Cardinality({i \in 1..Len(ps) : ps[i] = id})

\* fetchNewPostsStream hands streamNewPosts its next batch.
StreamBatch(j) ==
  /\ j \in intakeBudget.jobs
  /\ intakeBudget.batches > 0
  /\ stream[j].pc = "idle"
  /\ \E s \in Subreddits, b \in Batches :
       stream' = [stream EXCEPT ![j] =
                    [NoStream EXCEPT !.pc = "get", !.subreddit = s, !.batch = b]]
  /\ intakeBudget' = [intakeBudget EXCEPT !.batches = @ - 1]
  /\ UNCHANGED <<lastFetch, seenPosts, seenIds, mongo, dedup, reported,
                 filtered, coreVars>>

\* filterNewPosts up to its second await: redis get, the filter, and the
\* return when nothing passed it.
FilterGet(j) ==
  /\ stream[j].pc = "get"
  /\ LET s == stream[j].subreddit
         lastFetched == ParseInt(lastFetch[s])
         newOnes == NewOnes(stream[j].batch, lastFetched)
     IN IF newOnes = <<>>
        THEN /\ stream' = [stream EXCEPT ![j].pc = "sadd",
                                         ![j].before = lastFetch[s]]
             /\ filtered' = Append(filtered,
                  [subreddit |-> s, batch |-> stream[j].batch,
                   before |-> lastFetch[s], stored |-> lastFetch[s],
                   result |-> <<>>, after |-> lastFetch[s]])
        ELSE /\ stream' = [stream EXCEPT ![j].pc = "set",
                                         ![j].before = lastFetch[s],
                                         ![j].newOnes = newOnes]
             /\ UNCHANGED filtered
  /\ UNCHANGED <<lastFetch, seenPosts, seenIds, mongo, intakeBudget, dedup,
                 reported, coreVars>>

\* filterNewPosts from its second await: redis set, return.
FilterSet(j) ==
  /\ stream[j].pc = "set"
  /\ LET s == stream[j].subreddit
         latest == Latest(stream[j].newOnes)
     IN /\ lastFetch' = [lastFetch EXCEPT ![s] = latest]
        /\ filtered' = Append(filtered,
             [subreddit |-> s, batch |-> stream[j].batch,
              before |-> stream[j].before, stored |-> lastFetch[s],
              result |-> stream[j].newOnes, after |-> latest])
  /\ stream' = [stream EXCEPT ![j].pc = "sadd"]
  /\ UNCHANGED <<seenPosts, seenIds, mongo, intakeBudget, dedup, reported,
                 coreVars>>

\* One turn of the loop over the fresh posts: redis sadd seen_posts.
StreamSadd(j) ==
  /\ stream[j].pc = "sadd"
  /\ stream[j].i < Len(stream[j].newOnes)
  /\ LET id == stream[j].newOnes[stream[j].i + 1]
         isNew == id \notin seenPosts
     IN /\ seenPosts' = seenPosts \cup {id}
        /\ stream' = [stream EXCEPT
             ![j].i = @ + 1,
             ![j].unseen = IF isNew THEN Append(@, id) ELSE @]
        /\ reported' = [reported EXCEPT ![id] = IF isNew THEN @ + 1 ELSE @]
  /\ UNCHANGED <<lastFetch, seenIds, mongo, intakeBudget, dedup, filtered,
                 coreVars>>

\* Post.insertMany of the unseen posts; the batch is done.
StreamInsert(j) ==
  /\ stream[j].pc = "sadd"
  /\ stream[j].i = Len(stream[j].newOnes)
  /\ mongo' = mongo \cup Ids(stream[j].unseen)
  /\ stream' = [stream EXCEPT ![j] = NoStream]
  /\ UNCHANGED <<lastFetch, seenPosts, seenIds, intakeBudget, dedup, reported,
                 filtered, coreVars>>

\* Worker processes taking stream jobs of any subreddit at the same time.
InitNoPipeline ==
  /\ InitStores /\ InitWorkers /\ InitCollectors({AllOk}, 0)
  /\ rawPost \in Contents({Plain})
  /\ llm \in Answers({OkAnswers})
  /\ active = {}
  /\ topic = OwnTopics
  /\ budget = [runs |-> 0, faults |-> 0]

InitStream ==
  /\ InitNoPipeline
  /\ InitServices([NoService EXCEPT !.batches = MaxIntakeBatches,
                                    !.jobs = StreamJobs])

NextStream ==
  \E j \in StreamJobs :
    \/ StreamBatch(j)
    \/ FilterGet(j)
    \/ FilterSet(j)
    \/ StreamSadd(j)
    \/ StreamInsert(j)

SpecStream == InitStream /\ [][NextStream]_vars

\* One worker process: a job starts when the one before it has returned.
InitStreamSeq ==
  /\ InitNoPipeline
  /\ InitServices([NoService EXCEPT !.batches = MaxSeqBatches,
                                    !.jobs = {"j1"}])

SpecStreamSeq == InitStreamSeq /\ [][NextStream]_vars

\* ------------------------------------------------- optimizedWorkerJob
\* warmRedisFromDatabase, then collectUniquePosts up to deduplicateUltraFast's
\* first await: the sampled posts, redis multi of sismember.
DedupCheck(d) ==
  /\ intakeBudget.calls > 0
  /\ dedup[d].pc = "idle"
  /\ intakeBudget' = [intakeBudget EXCEPT !.calls = @ - 1]
  /\ seenIds' = seenIds \cup mongo
  /\ \E allPosts \in Batches :
       LET candidates == SelectSeq(allPosts, LAMBDA id : id \notin seenIds')
       IN dedup' = [dedup EXCEPT ![d] =
            IF candidates = <<>>
            THEN NoDedup
            ELSE [NoDedup EXCEPT !.pc = "find", !.posts = allPosts,
                                 !.candidates = candidates]]
  /\ UNCHANGED <<lastFetch, seenPosts, mongo, stream, reported, filtered,
                 coreVars>>

\* Post.find of the candidates' ids.
DedupFind(d) ==
  /\ dedup[d].pc = "find"
  /\ LET unique == SelectSeq(dedup[d].candidates, LAMBDA id : id \notin mongo)
     IN dedup' = [dedup EXCEPT ![d] =
          IF unique = <<>> THEN NoDedup
          ELSE [@ EXCEPT !.pc = "add", !.unique = unique]]
  /\ UNCHANGED <<lastFetch, seenPosts, seenIds, mongo, intakeBudget, stream,
                 reported, filtered, coreVars>>

\* redis sadd of the new ids (and expire); the unique posts are returned.
DedupAdd(d) ==
  /\ dedup[d].pc = "add"
  /\ seenIds' = seenIds \cup Ids(dedup[d].unique)
  /\ reported' = [id \in IntakeIds |->
                    reported[id] + Times(dedup[d].unique, id)]
  /\ dedup' = [dedup EXCEPT ![d].pc = "insert"]
  /\ UNCHANGED <<lastFetch, seenPosts, mongo, intakeBudget, stream, filtered,
                 coreVars>>

\* Post.insertMany(batch, {ordered: false}); duplicate keys are skipped.
DedupInsert(d) ==
  /\ dedup[d].pc = "insert"
  /\ mongo' = mongo \cup Ids(dedup[d].unique)
  /\ dedup' = [dedup EXCEPT ![d] = NoDedup]
  /\ UNCHANGED <<lastFetch, seenPosts, seenIds, intakeBudget, stream,
                 reported, filtered, coreVars>>

\* Two runs of optimizedWorkerJob at the same time.
InitDedup ==
  /\ InitNoPipeline
  /\ InitServices([NoService EXCEPT !.calls = MaxDedupCalls])

NextDedup ==
  \E d \in DedupRuns :
    \/ DedupCheck(d)
    \/ DedupFind(d)
    \/ DedupAdd(d)
    \/ DedupInsert(d)

SpecDedup == InitDedup /\ [][NextDedup]_vars

\* ------------------------------------------------- orchestrator queue
\* Everything but the queue, the workers' positions and the clock.
aroundQueue == <<enrichButPc, intakeVars, bucketVars, clientVars, redis,
                 clientIndex, clientCooldownUntil, reddit, poolBudget, call,
                 handed, laterVars>>

LOW_QUEUE_THRESHOLD == 3
\* config.orchestration.retryDelayMs, in ticks.
retryDelayTicks == 1
\* BullMQ's exponential backoff: 2 ^ (attemptsMade - 1) * delay.
Backoff(attemptsMade) == retryDelayTicks * 2 ^ (attemptsMade - 1)
InFlight(js) == {n \in DOMAIN js : js[n].state \in {"waiting", "active"}}
\* j.data.id: a property the data of a job does not have reads undefined.
DataId(data) == IF "id" \in DOMAIN data THEN data.id ELSE "undefined"
\* Post.find({processed: false}).limit(50): what the collection holds
\* unprocessed; nothing in the orchestrator sets processed.
Found == {<<>>, <<"p1">>, <<"p2">>, <<"p1", "p2">>}

\* What the callback of the orchestrator finds, Post.find({processed: false})
\* .limit(50): no step of the orchestrator sets processed, so it is every
\* raw post, on every call.
Unprocessed == <<"p1", "p2">>

\* checkAndRefillQueue up to the callback: getWaiting and getActive.
RefillCheck(r) ==
  /\ pendingRefills > 0
  /\ refill[r].pc = "idle"
  /\ pendingRefills' = pendingRefills - 1
  /\ LET total == Cardinality(InFlight(jobs))
     IN refill' = [refill EXCEPT ![r] =
          IF total <= LOW_QUEUE_THRESHOLD
          THEN [NoRefill EXCEPT !.pc = "callback", !.total = total,
                  !.inFlight = {jobs[n].data : n \in InFlight(jobs)}]
          ELSE NoRefill]
  /\ UNCHANGED <<jobs, requeued, pc, now, aroundQueue>>

\* The callback's answer, the ids of the jobs seen in flight, the filter.
RefillCallback(r) ==
  /\ refill[r].pc = "callback"
  /\ \E found \in Found :
       LET queuedIds == {DataId(d) : d \in refill[r].inFlight}
           freshPosts == SelectSeq(found, LAMBDA q : q \notin queuedIds)
       IN refill' = [refill EXCEPT ![r] =
            IF freshPosts = <<>> THEN NoRefill
            ELSE [@ EXCEPT !.pc = "add", !.fresh = freshPosts]]
  /\ UNCHANGED <<jobs, pendingRefills, requeued, pc, now, aroundQueue>>

\* addPosts: queue.addBulk of one job per fresh post.
RefillAdd(r) ==
  /\ refill[r].pc = "add"
  /\ Len(jobs) + Len(refill[r].fresh) <= MaxJobs
  /\ LET fresh == refill[r].fresh
     IN /\ jobs' = jobs \o [i \in 1..Len(fresh) |-> NewJob(fresh[i])]
        /\ requeued' = requeued \cup
             {fresh[i] : i \in {k \in 1..Len(fresh) :
                \E n \in InFlight(jobs) : jobs[n].data.rawPost = fresh[k]}}
  /\ refill' = [refill EXCEPT ![r] = NoRefill]
  /\ UNCHANGED <<pendingRefills, pc, now, aroundQueue>>

\* The BullMQ worker moves a waiting job to active.
TakeJob(w, n) ==
  /\ w \in active
  /\ pc[w] = "idle"
  /\ n \in DOMAIN jobs
  /\ jobs[n].state = "waiting"
  /\ \A k \in DOMAIN jobs : ~(jobs[k].state = "active" /\ jobs[k].worker = w)
  /\ jobs' = [jobs EXCEPT ![n].state = "active", ![n].worker = w,
                          ![n].runs = @ + 1,
                          ![n].gaps = IF jobs[n].attemptsMade > 0
                                      THEN Append(@, now - jobs[n].failedAt)
                                      ELSE @]
  /\ UNCHANGED <<refill, pendingRefills, requeued, pc, now, aroundQueue>>

\* ... and calls the processor with it (worker.ts, createWorker).
StartJob(w) ==
  /\ pc[w] = "idle"
  /\ \E n \in DOMAIN jobs :
       /\ jobs[n].state = "active" /\ jobs[n].worker = w
       /\ Start(w, jobs[n].data.rawPost)

\* The processor has returned or thrown: the job is completed (and the
\* 'completed' handler calls checkAndRefillQueue), delayed for its next
\* attempt, or failed when defaultJobOptions.attempts are used up.
Settle(w) ==
  /\ pc[w] \in {"returned", "threw"}
  /\ \E n \in DOMAIN jobs :
       /\ jobs[n].state = "active" /\ jobs[n].worker = w
       /\ IF pc[w] = "returned"
          THEN /\ jobs' = [jobs EXCEPT ![n].state = "completed"]
               /\ pendingRefills' = pendingRefills + 1
          ELSE /\ jobs' = [jobs EXCEPT
                    ![n].attemptsMade = @ + 1,
                    ![n].error = thrown[w],
                    ![n].failedAt = now,
                    ![n].readyAt = now + Backoff(jobs[n].attemptsMade + 1),
                    ![n].state = IF jobs[n].attemptsMade + 1 < retryAttempts
                                 THEN "delayed" ELSE "failed"]
               /\ UNCHANGED pendingRefills
  /\ pc' = [pc EXCEPT ![w] = "idle"]
  /\ UNCHANGED <<refill, requeued, now, aroundQueue>>

\* A delayed job is due.
Promote(n) ==
  /\ n \in DOMAIN jobs
  /\ jobs[n].state = "delayed"
  /\ now >= jobs[n].readyAt
  /\ jobs' = [jobs EXCEPT ![n].state = "waiting"]
  /\ UNCHANGED <<refill, pendingRefills, requeued, pc, now, aroundQueue>>

\* The orchestrator process from its bootstrap on: one worker, raw posts too
\* short to be problems, a store that answers.
InitRefill ==
  /\ InitStores /\ InitWorkers /\ InitCollectors({AllOk}, 0)
  /\ rawPost = [q \in Posts |-> [Plain EXCEPT !.short = TRUE]]
  /\ llm \in Answers({OkAnswers})
  /\ active = {"w1"}
  /\ topic = OwnTopics
  /\ budget = [runs |-> MaxRefillRuns, faults |-> 0]
  /\ InitServices([NoService EXCEPT !.refills = 1])

NextRefill ==
  \/ \E r \in Refills : RefillCheck(r) \/ RefillCallback(r) \/ RefillAdd(r)
  \/ \E w \in Workers, n \in 1..MaxJobs : TakeJob(w, n)
  \/ \E w \in Workers :
       \/ StartJob(w)
       \/ FindById(w)
       \/ SpamCheck(w)
       \/ ValidityCheck(w)
       \/ MarkCompleted(w)
       \/ Settle(w)

SpecRefill == InitRefill /\ [][NextRefill]_vars

\* One job in the queue, a store that fails up to MaxQueueFaults calls.
InitQueueRetry ==
  /\ InitStores /\ InitWorkers /\ InitCollectors({AllOk}, 0)
  /\ rawPost \in Contents({Plain})
  /\ llm \in Answers({OkAnswers, [OkAnswers EXCEPT !.validity = "derived"]})
  /\ active = {"w1"}
  /\ topic = OwnTopics
  /\ budget = [runs |-> MaxQueueRuns, faults |-> MaxQueueFaults]
  /\ InitServices([NoService EXCEPT !.queue = <<NewJob("p1")>>])

NextQueue ==
  \/ \E w \in Workers, n \in 1..MaxJobs : TakeJob(w, n)
  \/ \E w \in Workers : StartJob(w) \/ Stages(w) \/ Failing(w) \/ Settle(w)
  \/ \E n \in 1..MaxJobs : Promote(n)
  \/ Tick

SpecQueue == InitQueueRetry /\ [][NextQueue]_vars

\* ------------------------------------------------------ TokenBucket
\* Everything but the buckets and their callers.
aroundBucket == <<enrichVars, poolVars, intakeVars, queueVars, clientVars,
                  laterVars>>

Min(a, b) == IF a < b THEN a ELSE b
\* refill(): Math.min(maxTokens, tokens + timePassed * refillRate).
Refilled(b) ==
  Min(BucketMax(b), bucket[b].tokens + bucket[b].sinceRefill * RefillRate(b))
\* The negation of the loop condition, while (this.tokens < count).
EnoughAlways(tokens, count) == TRUE
Enough(tokens, count) == tokens >= count
\* The bucket a caller is in, and what it asks of it.
Asks(c) == IF waiter[c].pc = "request" THEN 1 ELSE waiter[c].estimatedTokens

\* callLLMWithRetry(func, estimatedTokens) is called.
CallLLM(c) ==
  /\ waiter[c].pc = "idle"
  /\ \E n \in Estimates :
       waiter' = [waiter EXCEPT ![c] =
                    [NoWaiter EXCEPT !.pc = "request", !.estimatedTokens = n]]
  /\ UNCHANGED <<bucket, aroundBucket>>

\* waitForTokens from its entry or from a wake-up of its timer: refill, then
\* sleep again or deduct and return.
WaitForTokens(c) ==
  /\ waiter[c].pc \in Buckets
  /\ LET b == waiter[c].pc
         tokens == Refilled(b)
     IN IF Enough(tokens, Asks(c))
        THEN /\ bucket' = [bucket EXCEPT ![b] =
                   [tokens |-> tokens - Asks(c), sinceRefill |-> 0]]
             /\ waiter' = [waiter EXCEPT
                   ![c].pc = IF b = "request" THEN "token" ELSE "passed",
                   ![c].had[b] = tokens]
        ELSE /\ bucket' = [bucket EXCEPT ![b] =
                   [tokens |-> tokens, sinceRefill |-> 0]]
             /\ waiter' = [waiter EXCEPT ![c].slept = TRUE]
  /\ UNCHANGED aroundBucket

\* func has returned, or thrown for the last time.
ReturnLLM(c) ==
  /\ waiter[c].pc = "passed"
  /\ waiter' = [waiter EXCEPT ![c] = NoWaiter]
  /\ UNCHANGED <<bucket, aroundBucket>>

\* Time passes; past a full bucket more time adds nothing.
Pass ==
  /\ bucket' = [b \in Buckets |->
       [bucket[b] EXCEPT !.sinceRefill =
          Min(@ + 1, BucketMax(b) \div RefillRate(b))]]
  /\ UNCHANGED <<waiter, aroundBucket>>

InitGate == InitNoPipeline /\ InitServices(NoService)

NextGate ==
  \/ \E c \in Waiters : CallLLM(c) \/ WaitForTokens(c) \/ ReturnLLM(c)
  \/ Pass

SpecGate == InitGate /\ [][NextGate]_vars

\* The same with timers that fire, callers that go on and a clock that runs.
SpecGateFair ==
  /\ SpecGate
  /\ WF_vars(Pass)
  /\ \A c \in Waiters : WF_vars(WaitForTokens(c)) /\ WF_vars(ReturnLLM(c))

\* -------------------------------------------------------- LLMClient
\* Everything but the client and the clock.
aroundClient == <<enrichVars, intakeVars, queueVars, bucketVars, redis,
                  clientIndex, clientCooldownUntil, reddit, poolBudget, call,
                  handed, laterVars>>

\* checkRateLimit, first half: a window older than a minute is started anew.
Window(rl) ==
  IF now - rl.windowStart > windowTicks
  THEN [tokens |-> 0, requests |-> 0, windowStart |-> now]
  ELSE rl
\* checkRateLimit, second half: room for the estimate and one more request.
Allows(rl) ==
  /\ ~(rl.tokens + estimatedTokens > maxTokensPerMinute)
  /\ ~(rl.requests >= maxRequestsPerMinute)

\* generateCompletion is called: callWithRetry starts its first attempt.
GenerateCompletion(g) ==
  /\ gen[g].pc = "idle"
  /\ Len(invocations) < MaxInvocations
  /\ gen' = [gen EXCEPT ![g] = [NoGen EXCEPT !.pc = "attempt", !.attempt = 1]]
  /\ UNCHANGED <<rateLimiter, invocations, now, aroundClient>>

\* One attempt of callWithRetry up to its await: checkRateLimit, then either
\* the sleep or operation(), that is llm.invoke(prompt).
Attempt(g) ==
  /\ gen[g].pc = "attempt"
  /\ rateLimiter' = Window(rateLimiter)
  /\ IF Allows(rateLimiter')
     THEN /\ Len(invocations) < MaxInvocations
          /\ invocations' = Append(invocations, now)
          /\ gen' = [gen EXCEPT ![g].pc = "invoked", ![g].invoked = @ + 1]
     ELSE /\ gen' = [gen EXCEPT ![g].pc = "sleep"]
          /\ UNCHANGED invocations
  /\ UNCHANGED <<now, aroundClient>>

\* The sleep is over: the next attempt, or past maxRetries `throw lastError`.
\* generateCompletion's catch block reads error.message: of an Error that an
\* earlier attempt left in lastError, or of undefined when every attempt was
\* refused, and then the catch block itself throws a TypeError.
Continue(g) ==
  /\ gen[g].pc = "sleep"
  /\ gen' = [gen EXCEPT ![g] =
       IF gen[g].attempt = retryAttempts
       THEN Ended(IF gen[g].erred THEN "failed" ELSE "rejected")
       ELSE [@ EXCEPT !.pc = "attempt", !.attempt = @ + 1]]
  /\ UNCHANGED <<rateLimiter, invocations, now, aroundClient>>

\* llm.invoke answers: generateCompletion counts the reply and returns.
Answered(g) ==
  /\ gen[g].pc = "invoked"
  /\ rateLimiter' = [rateLimiter EXCEPT !.tokens = @ + tokensUsed,
                                        !.requests = @ + 1]
  /\ gen' = [gen EXCEPT ![g] = Ended("ok")]
  /\ UNCHANGED <<invocations, now, aroundClient>>

\* llm.invoke throws: backoff and the next attempt, or the last error.
Errored(g) ==
  /\ gen[g].pc = "invoked"
  /\ gen' = [gen EXCEPT ![g] =
       IF gen[g].attempt = retryAttempts THEN Ended("failed")
       ELSE [@ EXCEPT !.pc = "sleep", !.erred = TRUE]]
  /\ UNCHANGED <<rateLimiter, invocations, now, aroundClient>>

InitLlm == InitNoPipeline /\ InitServices(NoService)

NextLlm ==
  \/ \E g \in LlmCalls :
       \/ GenerateCompletion(g)
       \/ Attempt(g)
       \/ Continue(g)
       \/ Answered(g)
       \/ Errored(g)
  \/ Tick

SpecLlm == InitLlm /\ [][NextLlm]_vars

\* ------------------------------------------------ CategoriesRepository
\* Everything but the categories table and the findOrCreate calls.
aroundCategories == <<enrichVars, poolVars, intakeVars, queueVars, bucketVars,
                      clientVars, spamCall, pollVars>>

\* The ids of the rows with a name.
RowsNamed(name) == {i \in 1..Len(categoryRows) : categoryRows[i] = name}

\* findOrCreate(name, ...) is called and awaits findByName.
FindOrCreate(f, name) ==
  /\ finder[f].pc = "idle"
  /\ Cardinality({g \in Finders : finder[g].pc # "idle"}) < MaxFinderCalls
  /\ finder' = [finder EXCEPT ![f] = [NoFinder EXCEPT !.pc = "find", !.name = name]]
  /\ UNCHANGED <<categoryRows, aroundCategories>>

\* findByName: select * where name = ... maybeSingle(), which answers one
\* row, null for none and an error for several; then findOrCreate returns
\* the row or goes on to create.
FindByName(f) ==
  /\ finder[f].pc = "find"
  /\ LET found == RowsNamed(finder[f].name)
     IN finder' = [finder EXCEPT ![f] =
          IF Cardinality(found) > 1 THEN [@ EXCEPT !.pc = "threw"]
          ELSE IF found = {} THEN [@ EXCEPT !.pc = "create"]
          ELSE [@ EXCEPT !.pc = "returned", !.result = CHOOSE i \in found : TRUE]]
  /\ UNCHANGED <<categoryRows, aroundCategories>>

\* create: insert(...).select().single().  The column name is UNIQUE NOT
\* NULL: an insert of a name that a row already has answers with an error,
\* which create throws and findOrCreate does not catch.
CreateCategory(f) ==
  /\ finder[f].pc = "create"
  /\ IF RowsNamed(finder[f].name) # {}
     THEN /\ finder' = [finder EXCEPT ![f].pc = "threw"]
          /\ UNCHANGED categoryRows
     ELSE /\ categoryRows' = Append(categoryRows, finder[f].name)
          /\ finder' = [finder EXCEPT ![f].pc = "returned",
                                      ![f].result = Len(categoryRows) + 1]
  /\ UNCHANGED aroundCategories

InitFinders == InitNoPipeline /\ InitServices(NoService)

NextFinders ==
  \E f \in Finders :
    \/ \E name \in CategoryNames : FindOrCreate(f, name)
    \/ FindByName(f)
    \/ CreateCategory(f)

SpecFinders == InitFinders /\ [][NextFinders]_vars

\* ------------------------------------------------------------ SpamAgent
\* What the model answers a moderation prompt with: the three verdicts a
\* pipeline post gets, both flags at once, and text that jsonParser rejects
\* (no JSON in it, or a key missing or not a boolean).
SpamReplies == {"clean", "spam", "pii", "both", "garbage"}
\* Everything but the agent's patterns, its calls and the client's calls.
aroundSpam ==
  <<storeVars, inputVars, assigned, maint, nextUuid, budget, pc, job, cur,
    todo, res, nearest, thrown, trace, obs, wrote, failures, done, poolVars,
    intakeVars, queueVars, bucketVars, categoryVars, pollVars, rateLimiter,
    invocations>>

\* checkSpamAndPii up to its await: the patterns are tested, the indicators
\* counted, and generateCompletion(prompt, 200) is called.
CheckSpamAndPii(k, p) ==
  /\ spamCall[k].pc = "idle"
  /\ gen[GenOf(k)].pc = "idle"
  /\ \E o \in PiiTestOutcomes(p, piiLastIndex) :
       /\ piiLastIndex' = o.li
       /\ spamCall' = [spamCall EXCEPT ![k] =
            [NoChecker EXCEPT !.pc = "awaiting", !.post = p,
                              !.ruleSpam = rawPost[p].spamWords,
                              !.regexPii = o.hit]]
  /\ gen' = [gen EXCEPT ![GenOf(k)] =
       [NoGen EXCEPT !.pc = "attempt", !.attempt = 1]]
  /\ UNCHANGED aroundSpam

\* The rest of it.  A result with success and data is parsed, and text that
\* does not parse counts as {isSpam: false, hasPii: false}, as does a result
\* without success; a rejected generateCompletion lands in the catch block.
SpamReturn(k) ==
  /\ spamCall[k].pc = "awaiting"
  /\ gen[GenOf(k)].pc = "idle"
  /\ LET outcome == gen[GenOf(k)].outcome
         Result(reply) ==
           LET v == SpamVerdict(spamCall[k].ruleSpam, spamCall[k].regexPii,
                                IF reply \in {"garbage", "none"} THEN "clean"
                                ELSE reply)
           IN [spamCall[k] EXCEPT
                 !.pc = "returned", !.reply = reply,
                 !.result = [success |-> TRUE, isSpam |-> v.isSpam,
                             hasPii |-> v.hasPii]]
     IN CASE outcome = "ok" ->
               \E reply \in SpamReplies :
                 spamCall' = [spamCall EXCEPT ![k] = Result(reply)]
          [] outcome = "failed" ->
               spamCall' = [spamCall EXCEPT ![k] = Result("none")]
          [] OTHER ->
               spamCall' = [spamCall EXCEPT ![k].pc = "returned"]
  /\ UNCHANGED <<piiLastIndex, gen, aroundSpam>>

InitSpam ==
  /\ InitStores /\ InitWorkers /\ InitCollectors({AllOk}, 0)
  /\ InitServices(NoService)
  /\ rawPost \in Contents(ContentKinds)
  /\ llm \in Answers({OkAnswers})
  /\ active = {}
  /\ topic = OwnTopics
  /\ budget = [runs |-> 0, faults |-> 0]

NextSpam ==
  \/ \E k \in Checkers :
       \/ \E p \in Posts : CheckSpamAndPii(k, p)
       \/ SpamReturn(k)
  \/ \E g \in LlmCalls :
       \/ Attempt(g)
       \/ Continue(g)
       \/ Answered(g)
       \/ Errored(g)
  \/ GenerateCompletion("g3")
  \/ Tick

SpecSpam == InitSpam /\ [][NextSpam]_vars

\* ---------------------------------------- fetchNewPostsStreamContinuous
\* Everything but the generator and the clock.
aroundPoller ==
  <<enrichVars, redis, clientIndex, clientCooldownUntil, reddit, poolBudget,
    call, handed, intakeVars, queueVars, bucketVars, clientVars, categoryVars,
    spamCall, listing>>

\* The page behind the cursor; past the last page the listing is empty.
PageAt(n) == IF n <= Len(listing.pages) THEN listing.pages[n] ELSE <<>>

\* The generator runs from one await or yield to the next without a break.
\* Behind the inner loop: the poll delay, or the outer test failing.
AfterInner(g) ==
  IF now < g.end
  THEN [g EXCEPT !.pc = "delay", !.wake = now + pollIntervalTicks]
  ELSE [g EXCEPT !.pc = "done"]
\* while (hasMore && Date.now() < end): the next page is requested.
InnerHead(g) ==
  IF g.hasMore /\ now < g.end THEN [g EXCEPT !.pc = "fetching"]
  ELSE AfterInner(g)
\* while (Date.now() < end): a new pass from the top of the listing.
OuterHead(g) ==
  IF now < g.end
  THEN InnerHead([g EXCEPT !.after = 0, !.hasMore = TRUE, !.pass = @ + 1])
  ELSE [g EXCEPT !.pc = "done"]

Event(kind, g) ==
  [kind |-> kind, at |-> now, pass |-> g.pass, page |-> g.after + 1]
Proceed(g) ==
  /\ poller' = g
  /\ pollLog' = IF g.pc = "fetching" THEN Append(pollLog, Event("request", g))
                ELSE pollLog

\* The consumer's first next(): end = Date.now() + timeBudgetMs.
StartContinuous ==
  /\ poller.pc = "idle"
  /\ Proceed(OuterHead([poller EXCEPT !.end = now + timeBudgetTicks]))
  /\ UNCHANGED <<now, aroundPoller>>

\* fetchNewPostsFromSubreddit returns: an empty page ends the pass, any
\* other page is yielded, hasMore cleared first when its last post is not
\* newer than the threshold.
FetchReturns ==
  /\ poller.pc = "fetching"
  /\ LET submissions == PageAt(poller.after + 1)
         lastCreated == submissions[Len(submissions)]
     IN IF Len(submissions) = 0
        THEN Proceed(AfterInner([poller EXCEPT !.hasMore = FALSE]))
        ELSE /\ poller' =
                  [poller EXCEPT
                     !.pc = "yielded",
                     !.hasMore = ~(/\ listing.th # 0 /\ lastCreated # 0
                                   /\ lastCreated <= listing.th)]
             /\ pollLog' = Append(pollLog, Event("yield", poller))
  /\ UNCHANGED <<now, aroundPoller>>

\* The consumer's next next(): after = the last submission's name.
ResumeContinuous ==
  /\ poller.pc = "yielded"
  /\ Proceed(InnerHead([poller EXCEPT !.after = @ + 1]))
  /\ UNCHANGED <<now, aroundPoller>>

\* The timer of delay(pollIntervalMs) fires.
DelayOver ==
  /\ poller.pc = "delay"
  /\ now >= poller.wake
  /\ Proceed(OuterHead(poller))
  /\ UNCHANGED <<now, aroundPoller>>

InitContinuous ==
  /\ InitStores /\ InitWorkers /\ InitCollectors({AllOk}, 0)
  /\ rawPost \in Contents({Plain})
  /\ llm \in Answers({OkAnswers})
  /\ active = {}
  /\ topic = OwnTopics
  /\ budget = [runs |-> 0, faults |-> 0]
  /\ \E l \in Listings :
       InitServices([batches |-> 0, jobs |-> {}, calls |-> 0, queue |-> <<>>,
                     refills |-> 0, listing |-> l])

NextContinuous ==
  \/ StartContinuous
  \/ FetchReturns
  \/ ResumeContinuous
  \/ DelayOver
  \/ Tick

SpecContinuous == InitContinuous /\ [][NextContinuous]_vars

\* ================================================================ claims
Finished(w) == pc[w] \in {"returned", "threw"}
Running(w) == pc[w] \notin {"idle", "returned", "threw"}
Failures(id) == IF id \in DOMAIN failures THEN failures[id] ELSE 0

\* The conditions C1 names: neither spam nor PII, valid, and the cluster,
\* category and sentiment stages of the post all returned success.
Qualifies(w) ==
  /\ res[w].spam.set /\ ~res[w].spam.isSpam /\ ~res[w].spam.hasPii
  /\ res[w].validity.set /\ res[w].validity.hasData /\ res[w].validity.isProblem
  /\ res[w].clusterResult = "ok"
  /\ res[w].categoryResult = "ok"
  /\ obs[w].sentiment = "ok"

C3_OneWorkerPerPost ==
  \A w, v \in Workers :
    (w # v /\ job[w] = job[v] /\ Running(w) /\ Running(v))
      => (trace[w] = <<>> \/ trace[v] = <<>>)

\* C4: once a record's status is processed no step changes it to another
\* status.
C4_ProcessedIsTerminal ==
  [][\A id \in DOMAIN posts :
       posts[id].status = "processed" => posts'[id].status = "processed"]_vars

\* C5: an execution that ended with an exception of the pipeline (the catch
\* block's own store call answering) left the record failed, with failedAt
\* and errorMessage set and retryCount one higher than before, and rethrew
\* the exception it caught.
C5_FailureIsRecorded ==
  \A w \in Workers :
    (pc[w] = "threw" /\ thrown[w] # "E2")
      => /\ Exists(posts, Parent(w))
         /\ posts[Parent(w)].status = "failed"
         /\ posts[Parent(w)].failed_at
         /\ posts[Parent(w)].error_message
         /\ posts[Parent(w)].retry_count = obs[w].retryBefore + 1
         /\ thrown[w] = obs[w].caught

\* C6: a failed record re-enters processing only while the number of its
\* recorded failures (its retryCount) is below maxRetries.
C6_RetriesAreBounded ==
  [][\A id \in DOMAIN posts :
       (posts[id].status = "failed" /\ posts'[id].status = "processing")
         => Failures(id) < retryAttempts]_vars

C8_RerunChangesNothing ==
  [][(\E w \in Workers : Running(w) /\ job[w] \in done)
       => UNCHANGED storeVars]_vars

SpamStopped(w) ==
  res[w].spam.set /\ (res[w].spam.isSpam \/ res[w].spam.hasPii)
InvalidStopped(w) ==
  /\ res[w].validity.set
  /\ res[w].validity.hasData /\ ~res[w].validity.isProblem

\* C9: after SpamCheck reported spam or PII no later stage runs; after
\* ValidityCheck reported isProblem = false none of the stages behind it
\* runs; in both cases the execution creates no mention.
C9_EarlyTermination ==
  \A w \in Workers :
    /\ SpamStopped(w) => trace[w] = <<"spam">> /\ obs[w].minted = 0
    /\ InvalidStopped(w)
         => trace[w] = <<"spam", "validity">> /\ obs[w].minted = 0

C9_Witness ==
  \E w, v \in Workers :
    /\ pc[w] = "returned" /\ SpamStopped(w)
    /\ pc[v] = "returned" /\ InvalidStopped(v)

\* C10: a post rejected as too short gets isProblem = false with the reason
\* "Content too short to be meaningful", and its execution ends with the
\* record in status processed and nothing written behind the validity stage.
C10_TooShortEndsProcessed ==
  \A w \in Workers :
    (pc[w] = "returned" /\ rawPost[job[w]].short /\ res[w].validity.set)
      => /\ res[w].validity.hasData /\ ~res[w].validity.isProblem
         /\ res[w].validity.reason = "Content too short to be meaningful"
         /\ trace[w] = <<"spam", "validity">>
         /\ MentionCount(mentions, Parent(w)) = 0
         /\ Exists(posts, Parent(w))
         /\ posts[Parent(w)].status = "processed"

\* ---------------------------------------------------- stage order (C11, C12)
IsPrefix(s, t) ==
  /\ Len(s) <= Len(t)
  /\ \A i \in 1..Len(s) : s[i] = t[i]

DocumentedOrder ==
  <<"spam", "validity", "classification", "semantic", "sentiment",
    "category", "cluster", "mention">>
Documented(tr) == SelectSeq(tr, LAMBDA x : x # "business")

AllStages ==
  <<"spam", "validity", "classification", "semantic", "sentiment",
    "business", "category", "cluster", "mention">>

\* C11: the stages of one execution run in the documented order, and the
\* result recorded for a stage is never replaced by a later stage's result
\* (here: the state's sentimentResult stays what SentimentAnalysis returned).
C11_OrderedAndNotOverwritten ==
  \A w \in Workers :
    /\ res[w].validity.derived = 0
         => IsPrefix(Documented(trace[w]), DocumentedOrder)
    /\ (InParent(w) /\ res[w].sentimentResult # "unset")
         => res[w].sentimentResult = obs[w].sentiment

\* C12: a failed Classification, Semantic, Sentiment, Category or Cluster
\* result does not abort: an execution that was not stopped early and
\* returned has invoked every stage and left the record processed; an
\* execution is in its catch block only after a store call answered an error.
C12_StageFailureDoesNotAbort ==
  \A w \in Workers :
    /\ ( /\ pc[w] = "returned" /\ ~obs[w].sawProcessed
         /\ ~shouldStop(res[w].spam, res[w].validity) )
         => /\ res[w].validity.derived = 0 => trace[w] = AllStages
            /\ IsPrefix(<<"spam", "validity">>, trace[w])
            /\ trace[w][Len(trace[w])] = "mention"
            /\ Exists(posts, Parent(w))
            /\ posts[Parent(w)].status = "processed"
    /\ pc[w] \in {"catch", "threw"} => obs[w].caught # "none"

C12_Witness ==
  \E w \in Workers :
    /\ pc[w] = "returned" /\ trace[w] = AllStages
    /\ res[w].semantic = FALSE
    /\ obs[w].sentiment = "fail"
    /\ res[w].categoryResult = "fail"
    /\ res[w].clusterResult = "fail"
    /\ posts[Parent(w)].status = "processed"

ClusterQuiet ==
  \A w \in Workers :
    pc[w] \notin {"clusterWrite", "clusterIncr", "clusterIncrWrite"}

NoneRunning == \A w \in Workers : ~Running(w)
RanLast(op) == Len(maint') = Len(maint) + 1 /\ maint'[Len(maint')] = op

\* The row of cluster c agrees with the posts assigned to it.
ExactCluster(rows, cl, c) ==
  /\ cl[c].member_count = Cardinality(PostsIn(rows, c))
  /\ PostsIn(rows, c) # {} => cl[c].centroid = CalculateCentroid(PostsIn(rows, c))

RecomputedExactly ==
  \A c \in 1..Len(clusters) :
    PostsIn(posts, c) # {} => ExactCluster(posts, clusters, c)
OnlySimilarPair(i, j) ==
  /\ i < j /\ Similar(clusters[i], clusters[j])
  /\ \A k \in 1..Len(clusters) \ {i, j} : ~Similar(clusters[i], clusters[k])
StillReturned(rows, cl, c) ==
  \E id \in DOMAIN rows :
    FindNearestCluster(cl, EmbeddingKey(id), Embedding(id)).id = c
MergedInto(big, small) ==
  /\ clusters[big].member_count >= clusters[small].member_count
  /\ PostsIn(posts', small) = {}
  /\ PostsIn(posts', big) = PostsIn(posts, big) \cup PostsIn(posts, small)
  /\ PostsIn(posts', big) # {}
       => clusters'[big].centroid = CalculateCentroid(PostsIn(posts', big))
  /\ ~StillReturned(posts', clusters', small)
C18_ReturnedIsNotCooling ==
  \A c \in Calls : call[c].pc = "request" => ~call[c].cooling

\* C19: while no credential has ever been put into cooldown, consecutive
\* nextClient calls of a collector return i + 1, i + 2, ... modulo the number
\* of credentials.
NoCooldownYet ==
  \A i \in Clients :
    redis[i] = 0 /\ \A k \in Collectors : clientCooldownUntil[k][i] = 0
C19_RoundRobin ==
  NoCooldownYet
    => \A k \in Collectors : \A n \in 1..(Len(handed[k]) - 1) :
         handed[k][n + 1] = (handed[k][n] + 1) % NumClients

\* C20: when the first credential of a call answers with a rate limit and
\* another credential is healthy, the call has cooled every credential that
\* answered with a rate limit, returns the submissions of the first healthy
\* credential in rotation order, and leaves the current index on it.
FirstHealthy(first) ==
  (first + SetMin({d \in 1..(NumClients - 1) :
                     reddit[(first + d) % NumClients] = "ok"})) % NumClients
C20_RotatesToHealthy ==
  \A c \in Calls :
    ( /\ call[c].pc = "done"
      /\ call[c].first \in call[c].limited
      /\ \E i \in Clients \ {call[c].first} : reddit[i] = "ok" )
      => /\ call[c].result = "posts"
         /\ call[c].from = FirstHealthy(call[c].first)
         /\ call[c].index = call[c].from
         /\ call[c].limited \subseteq call[c].cooled

\* ------------------------------------------------ exhaustion (C21)
AllRateLimited == \A i \in Clients : reddit[i] = "ratelimit"

\* C21: when every credential answers with a rate limit, a call makes at
\* most N listing calls, each retry with another credential, returns the
\* empty result, and leaves all N credentials in cooldown.
\* (Calls that last a whole cooldown are left aside: their first
\* credentials are ready again before they end.)
Quick(c) == call[c].ended < call[c].began + cooldownTicks
C21_ExhaustionIsBounded ==
  AllRateLimited
    => \A c \in Calls :
         /\ call[c].requests <= NumClients
         /\ (call[c].pc = "done" /\ Quick(c))
              => /\ call[c].result = "empty"
                 /\ call[c].requests = Cardinality(call[c].limited)
                 /\ call[c].ready = {}

\* ------------------------------------------------ dedup index (C22)
\* C22: no post id is called new by the collector's dedup index more than
\* once, whether the occurrences are in one batch, in two runs one after the
\* other, or in two runs whose check and add steps interleave.
C22_ReportedNewOnce == \A id \in IntakeIds : reported[id] <= 1

\* ------------------------------------------------ watermark (C23, C24)
\* What a call of filterNewPosts with stored watermark f.before has to return
\* and leave behind.
FilterExact(f) ==
  /\ f.result = NewOnes(f.batch, f.before)
  /\ f.after = IF f.result = <<>> THEN f.before ELSE Latest(f.result)
\* The call repeats the batch of the call before it.
Repeats(n) ==
  /\ n > 1
  /\ filtered[n - 1].subreddit = filtered[n].subreddit
  /\ filtered[n - 1].batch = filtered[n].batch

\* C23: filterNewPosts returns exactly the posts of the batch created after
\* the stored watermark and, when there are any, moves the watermark to the
\* newest of them, else leaves it; a second call with the identical batch
\* returns nothing and leaves the watermark where it was.
C23_FilterNewIsExact ==
  \A n \in 1..Len(filtered) :
    /\ FilterExact(filtered[n])
    /\ Repeats(n) => /\ filtered[n].result = <<>>
                     /\ filtered[n].after = filtered[n].before

\* The call that has just returned emitted only posts newer than the
\* watermark stored at its return.
EmitsOnlyNewer(f) ==
  \A i \in 1..Len(f.result) : CreatedUtc(f.result[i]) > f.stored

\* C24: under any interleaving of the jobs of one subreddit its stored
\* watermark never decreases, and a returning filterNewPosts emits no post
\* created at or before the watermark stored at that moment.
C24_WatermarkNeverDecreases ==
  [][/\ \A s \in Subreddits : lastFetch'[s] >= lastFetch[s]
     /\ filtered' # filtered => EmitsOnlyNewer(filtered'[Len(filtered')])]_vars

\* ------------------------------------------------ queue refill (C25)
\* C25: whatever the order and overlap of the refill checks, checkAndRefillQueue
\* adds no job for a post that has a job waiting or active at that moment.
C25_NoInFlightPostEnqueued == requeued = {}

\* ------------------------------------------------ queue retry (C26)
\* The enriched record of the job's post is marked failed with a message.
MarkedFailed(n) ==
  LET id == ParentId(jobs[n].data.rawPost)
  IN /\ Exists(posts, id)
     /\ posts[id].status = "failed"
     /\ posts[id].error_message = TRUE

\* C26: a job whose processor throws is run again after an exponentially
\* growing delay, at most retryAttempts times in all; after the last failed
\* attempt it is in the failed set and the enriched record of its post is
\* marked failed with the error message.
C26_RetriedThenMarkedFailed ==
  \A n \in DOMAIN jobs :
    /\ jobs[n].runs <= retryAttempts
    /\ \A k \in DOMAIN jobs[n].gaps : jobs[n].gaps[k] >= Backoff(k)
    /\ jobs[n].state = "failed"
         => jobs[n].runs = retryAttempts /\ MarkedFailed(n)

\* ------------------------------------------------ token bucket (C27, C28)
\* C27: a caller is past a bucket only after its request was deducted from a
\* balance that held at least that much, and the balance of each bucket stays
\* between 0 and its capacity, whatever the interleaving of the callers.
C27_BalanceWithinBounds ==
  /\ \A b \in Buckets :
       bucket[b].tokens >= 0 /\ bucket[b].tokens <= BucketMax(b)
  /\ \A c \in Waiters :
       /\ waiter[c].pc \in {"token", "passed"} => waiter[c].had["request"] >= 1
       /\ waiter[c].pc = "passed"
            => waiter[c].had["token"] >= waiter[c].estimatedTokens

\* A caller that had to sleep is past both buckets while another one sleeps.
C27_Witness ==
  \E c, d \in Waiters :
    /\ c # d
    /\ waiter[c].pc = "passed" /\ waiter[c].slept
    /\ waiter[d].pc \in Buckets /\ waiter[d].slept

\* C28: with timers that fire and a clock that runs, every caller waiting at
\* a bucket gets past it, whatever it asks for and whoever else is waiting.
C28_EveryWaiterReturns ==
  \A c \in Waiters : (waiter[c].pc \in Buckets) ~> (waiter[c].pc = "passed")

\* ------------------------------------------------ LLM rate gate (C29)
\* Invocations started in the minute that begins at time t.
StartedIn(t) ==
  Cardinality({i \in DOMAIN invocations :
                 invocations[i] >= t /\ invocations[i] < t + windowTicks})

\* C29: in no window of one minute does the client start more than
\* maxRequestsPerMinute invocations or count more than maxTokensPerMinute
\* tokens, however many calls are in flight.
C29_RateGateHolds ==
  /\ \A t \in 0..MaxTime : StartedIn(t) <= maxRequestsPerMinute
  /\ rateLimiter.tokens <= maxTokensPerMinute

\* ------------------------------------------------ derived problems (C30)
Count(tr, stage) == Cardinality({i \in 1..Len(tr) : tr[i] = stage})
Downstream ==
  {"classification", "semantic", "sentiment", "category", "cluster", "mention"}
\* The derived records of a raw post, and those the stages have written.
DerivedRows(p) == {id \in DOMAIN posts : id.post = p /\ IsDerived(id)}
Enriched(id) ==
  /\ posts[id].classification = TRUE
  /\ posts[id].embedding = TRUE
  /\ posts[id].sentiment = TRUE
  /\ posts[id].category_id # "none"
\* Store calls that answered with an error so far.
Faults == MaxDerivedFaults - budget.faults

\* C30: an execution for which ValidityCheck returned k derived problems and
\* that returned has run every downstream stage once for each derived problem
\* (and once for the post itself), each derived problem on a record of its
\* own whose fresh id carries the id of the post; a store error in the
\* iteration of one problem costs that problem at most, not the others.
C30_OncePerDerivedProblem ==
  \A w \in Workers :
    (pc[w] = "returned" /\ res[w].validity.derived > 0)
      => LET k == res[w].validity.derived
             rows == DerivedRows(job[w])
         IN /\ \A s \in Downstream :
                 /\ Count(trace[w], s) <= k + 1
                 /\ Count(trace[w], s) >= k + 1 - Faults
            /\ Cardinality(rows) <= k
            /\ Cardinality(rows) >= k - Faults
            /\ Cardinality({id \in rows : Enriched(id)}) >= k - Faults

\* The iteration of the first problem met a store error and the second
\* problem was processed on its own record all the same.
C30_Witness ==
  \E w \in Workers :
    /\ pc[w] = "returned" /\ res[w].validity.derived = MaxDerivedMany
    /\ Faults = 1
    /\ \E id \in DerivedRows(job[w]) :
         /\ Enriched(id) /\ MentionCount(mentions, id) = 1
         /\ \E other \in DerivedRows(job[w]) : other.uuid < id.uuid /\ ~Enriched(other)

\* ---------------------------------------------------- categories (C31)
\* C31: whatever the interleaving of findOrCreate calls, no name is on more
\* than one row of categories, and every call that has ended has returned
\* the row with its name.
C31_OneRowReturnedToEveryCall ==
  /\ \A name \in CategoryNames : Cardinality(RowsNamed(name)) <= 1
  /\ \A f \in Finders :
       /\ finder[f].pc # "threw"
       /\ finder[f].pc = "returned" => finder[f].result \in RowsNamed(finder[f].name)

\* ------------------------------------------------------- SpamCheck (C32)
\* What the model said of the content, as far as the agent could read it.
LlmSaid(k, flags) ==
  gen[GenOf(k)].outcome = "ok" /\ spamCall[k].reply \in flags

\* C32: a checkSpamAndPii call that has ended returned success with isSpam =
\* rule verdict or LLM verdict and hasPii = regex verdict or LLM verdict, the
\* LLM verdicts being false when the call of the model failed or its reply
\* could not be parsed.
C32_RuleOrLlmAlwaysSucceeds ==
  \A k \in Checkers :
    spamCall[k].pc = "returned"
      => /\ spamCall[k].result.success
         /\ spamCall[k].result.isSpam
              = (spamCall[k].ruleSpam \/ LlmSaid(k, {"spam", "both"}))
         /\ spamCall[k].result.hasPii
              = (spamCall[k].regexPii \/ LlmSaid(k, {"pii", "both"}))

\* ------------------------------------------------------ PII match (C33)
\* C33: in every SpamCheck call of a sequence of calls on the one SpamAgent,
\* content that matches a PII pattern is reported with hasPii = true and the
\* execution goes no further than SpamCheck, whatever was checked before.
C33_PiiContentAlwaysHalts ==
  \A w \in Workers :
    (res[w].spam.set /\ rawPost[job[w]].pii)
      => /\ res[w].spam.hasPii
         /\ \A i \in 1..Len(trace[w]) : trace[w][i] = "spam"

\* ------------------------------------------------ LLM call retries (C34)
\* C34: a generateCompletion call invokes the model at most retryAttempts
\* times and ends by resolving to an AgentResult, with success = false when
\* no attempt succeeded, be it that every attempt was refused by the rate
\* limiter; it never rejects.
C34_BoundedAttemptsAlwaysResolves ==
  \A g \in LlmCalls :
    /\ gen[g].invoked <= retryAttempts
    /\ gen[g].outcome # "rejected"

\* ------------------------------------------- failed ValidityCheck (C35)
\* ValidityCheck returned success = false and no data.
ValidityFailed(w) == res[w].validity.set /\ ~res[w].validity.hasData

PastTheEnd(e) ==
  \E n \in 1..(e.page - 1) :
    \/ PageAt(n) = <<>>
    \/ listing.th # 0 /\ PageAt(n)[Len(PageAt(n))] <= listing.th

\* C36: within a pass no page is requested behind an empty page or behind a
\* page whose last post is not newer than the threshold, and no page is
\* requested and no batch yielded once the time budget has expired.
C36_PagingStopsAtWatermarkAndBudget ==
  \A i \in DOMAIN pollLog :
    /\ pollLog[i].kind = "request" => ~PastTheEnd(pollLog[i])
    /\ pollLog[i].at < poller.end

\* ------------------------------------------------ later pages (C37)
\* The batches fetched for a subreddit are the pages of one pass over its
\* listing, newest post first.
NewestFirst(s) ==
  \A i, k \in DOMAIN filtered :
    (filtered[i].subreddit = s /\ filtered[k].subreddit = s)
      => /\ \A m, n \in DOMAIN filtered[i].batch :
              m < n => CreatedUtc(filtered[i].batch[m])
                         > CreatedUtc(filtered[i].batch[n])
         /\ i < k => \A m \in DOMAIN filtered[i].batch,
                        n \in DOMAIN filtered[k].batch :
                       CreatedUtc(filtered[i].batch[m])
                         > CreatedUtc(filtered[k].batch[n])

\* C37: a streaming job that found the watermark of its subreddit unset and
\* has handled its pages has stored every post it fetched, on whichever page
\* the post came.
C37_LaterPagesAreStored ==
  (\A j \in StreamJobs : stream[j].pc = "idle")
    => \A s \in Subreddits :
         NewestFirst(s)
           => \A i \in DOMAIN filtered :
                filtered[i].subreddit = s => Ids(filtered[i].batch) \subseteq mongo

\* ----------------------------------------------- completed posts (C38)
\* C38: a refill whose callback answered as the orchestrator's own callback
\* does adds no job for a raw post of which a job has completed.
C38_CompletedNeverEnqueuedAgain ==
  [][\A r \in Refills :
       (refill[r].pc = "add" /\ refill[r].fresh = Unprocessed /\ jobs' # jobs)
         => \A n \in DOMAIN jobs :
              jobs[n].state = "completed"
                => \A k \in (DOMAIN jobs') \ (DOMAIN jobs) :
                     jobs'[k].data.rawPost # jobs[n].data.rawPost]_vars

\* ----------------------------------------------- terminal status (C39)
\* C39: once processPost has returned, the record of the post and the
\* records of its derived problems are in status processed or failed; none
\* is left in status processing.
C39_NoRecordLeftProcessing ==
  \A w \in Workers :
    pc[w] = "returned"
      => \A id \in DOMAIN posts :
           id.post = job[w] => posts[id].status \in {"processed", "failed"}

\* --------------------------------------- concurrent cooldowns (C40)
\* C40: however the calls on a collector interleave, a call puts into
\* cooldown only credentials that answered it with a rate limit, and it
\* issues no request on a cooling credential while another one is ready.
C40_CooldownHitsTheLimitedCredential ==
  \A c \in Calls :
    /\ call[c].cooled \subseteq call[c].limited
    /\ (call[c].pc = "request" /\ call[c].cooling)
         => \A i \in Clients :
              CooldownUntil(clientCooldownUntil[call[c].collector], i) > now

====
